---- MODULE Spec2Model ----
(***************************************************************************)
(* SquareRun: player kinematics and collision, collectibles and the        *)
(* collectible manager, the game state with its statistics and eased time  *)
(* scale, the camera, and the Game object that drives them frame by frame. *)
(*                                                                         *)
(* Units.  The source computes in floating point; the model computes the   *)
(* same expressions exactly, in integers:                                  *)
(*   time      dt is a number of tenths of a second (DtPerSec per second); *)
(*   position  1/30 pixel (Px units per pixel), so that width/3 and        *)
(*             velocity*dt are whole numbers;                              *)
(*   velocity  pixels per second, as in the source;                        *)
(*   angle     the player's angle is quarters*(pi/2) + tenths/10 radians,  *)
(*             a particle's angle is in tenths of a radian.                *)
(***************************************************************************)
EXTENDS Integers, Sequences, FiniteSets, TLC

VARIABLES
    player,        \* the Player object
    collectibles,  \* CollectibleManager.collectibles, a list of Collectible objects
    manager,       \* the other fields of the CollectibleManager
    call,          \* the last operation called, its arguments and its result
    trueReturns,   \* per managed collectible: how often collect() returned true
    gs,            \* the GameState object
    scenario,      \* how far the run has followed MainMenu, Playing, Paused, Playing
    game           \* the Game object: camera, level, timers and frame requests

vars == <<player, collectibles, manager, call, trueReturns, gs, scenario, game>>

\* the variables of the game state and of the orchestrator
gameVars == <<gs, scenario, game>>

\* ------------------------------------------------------------------ units
\* dt is counted in tenths of a second, the largest frame time the game loop
\* passes on
DtPerSec == 10
\* position units per pixel: a multiple of 3 (particleSize = width / 3) and
\* of DtPerSec (velocity * dt)
Px == 3 * DtPerSec

\* ----------------------------------------------------------------- bounds
\* largest frame time offered to update(dt), in tenths of a second
MaxDt == 1
\* update(dt) is offered only while the player's x stays at or below this
\* many pixels
MaxX == 180
\* ... and its y stays at or below this many pixels
MaxY == 300
\* increaseSpeed is offered only while the cruise speed stays between 0 and
\* this many px/s
MaxSpeed == 300
\* number of distinct Math.random() streams an explosion may draw from
MaxSeed == 1
\* the manager holds at most this many collectibles
MaxCollectibles == 1
\* the manager's update(dt) is offered while no animationFrame passes this
MaxAnimationFrame == 200
\* the counts of true results of collect() stop at this value
MaxCounted == 2

Dts == 0..MaxDt
Seeds == 0..(MaxSeed - 1)

\* -------------------------------------------------------------- platforms
\* Platforms are external, read-only objects {x, y, width, height, id}.
Platform(x, y, w, h, id) ==
    [x |-> x * Px, y |-> y * Px, width |-> w * Px, height |-> h * Px, id |-> id]

Platforms ==
    { Platform(100, 140, 200, 40, 1),    \* ground under the start position
      Platform(160, 130, 100, 10, 2),    \* thin ledge, 10 px into the player
      Platform(160, 120, 100, 20, 3),    \* ledge exactly half a player deep
      Platform(100,  80, 200, 40, 4) }   \* block above the ground

\* JavaScript null for lastSafePlatform
Null == [null |-> TRUE]

\* ----------------------------------------------------------------- Player
NewPlayer ==
    [x |-> 150 * Px, y |-> 100 * Px, width |-> 40 * Px, height |-> 40 * Px,
     dx |-> 300, dy |-> 0,
     gravity |-> 1800, jumpForce |-> -700, maxSpeed |-> 300, rotationSpeed |-> 6,
     onGround |-> FALSE, wasOnGround |-> FALSE,
     angle |-> [quarters |-> 0, tenths |-> 0],
     flashTime |-> 0, isDead |-> FALSE, isRespawning |-> FALSE,
     particles |-> <<>>, lastSafePlatform |-> Null,
     respawnX |-> 150 * Px, respawnY |-> 100 * Px,
     consecutiveDeaths |-> 0, lastDeathPlatformId |-> -1]

\* v [px/s] * dt [tenths of a second], in position units
Move(v, dt) == (v * dt * Px) \div DtPerSec

\* Math.round((t/10) / (pi/2)) for t >= 0, with 2/pi = 0.6366198 (exact for
\* the angles the bounded model reaches: no t/10 is within 1e-6 of a half
\* multiple of pi/2)
RoundQuarters(t) == (t * 636620 + 5000000) \div 10000000

\* the n-th value of (Math.random() - 0.5), in tenths, of stream s
RandomTenths == <<-5, 0, 4, -2>>
Random(s, n) == RandomTenths[((s + n) % Len(RandomTenths)) + 1]

\* updateParticles() that keeps a particle whose life has just reached 0
updateParticlesLate(p, dt) ==
    LET moved(q) == [q EXCEPT !.x = @ + Move(q.dx, dt),
                              !.y = @ + Move(q.dy, dt),
                              !.dy = @ + (p.gravity * 8 * dt) \div (10 * DtPerSec),
                              !.angle = @ + q.angleV * dt,
                              !.life = @ - dt]
        all == [n \in 1..Len(p.particles) |-> moved(p.particles[n])]
    IN  [p EXCEPT !.particles = SelectSeq(all, LAMBDA q : q.life >= 0)]

updateParticles(p, dt) ==
    LET moved(q) == [q EXCEPT !.x = @ + Move(q.dx, dt),
                              !.y = @ + Move(q.dy, dt),
                              !.dy = @ + (p.gravity * 8 * dt) \div (10 * DtPerSec),
                              !.angle = @ + q.angleV * dt,
                              !.life = @ - dt]
        all == [n \in 1..Len(p.particles) |-> moved(p.particles[n])]
    IN  [p EXCEPT !.particles = SelectSeq(all, LAMBDA q : q.life > 0)]

\* update(dt) without the early return for a dead player
updateIgnoringDeath(p, dt) ==
    LET dy1 == p.dy + (p.gravity * dt) \div DtPerSec
        p1 == [p EXCEPT
                 !.dy = dy1,
                 !.x = @ + Move(p.dx, dt),
                 !.y = @ + Move(dy1, dt),
                 !.angle = IF p.onGround
                           THEN [quarters |-> @.quarters + RoundQuarters(@.tenths),
                                 tenths |-> 0]
                           ELSE [@ EXCEPT !.tenths = @ + p.rotationSpeed * dt],
                 !.flashTime = IF @ > 0 THEN @ - dt * 6 ELSE @,
                 !.wasOnGround = p.onGround,
                 !.onGround = FALSE]
    IN  IF p.isRespawning THEN updateParticles(p, dt) ELSE updateParticles(p1, dt)

\* update(dt) that records wasOnGround but leaves onGround as it was
updateKeepsGround(p, dt) ==
    IF p.isDead \/ p.isRespawning
    THEN updateParticles(p, dt)
    ELSE LET dy1 == p.dy + (p.gravity * dt) \div DtPerSec
             p1 == [p EXCEPT
                      !.dy = dy1,
                      !.x = @ + Move(p.dx, dt),
                      !.y = @ + Move(dy1, dt),
                      !.angle = IF p.onGround
                                THEN [quarters |-> @.quarters + RoundQuarters(@.tenths),
                                      tenths |-> 0]
                                ELSE [@ EXCEPT !.tenths = @ + p.rotationSpeed * dt],
                      !.flashTime = IF @ > 0 THEN @ - dt * 6 ELSE @,
                      !.wasOnGround = p.onGround]
         IN  updateParticles(p1, dt)

update(p, dt) ==
    IF p.isDead \/ p.isRespawning
    THEN updateParticles(p, dt)
    ELSE LET dy1 == p.dy + (p.gravity * dt) \div DtPerSec
             p1 == [p EXCEPT
                      !.dy = dy1,
                      !.x = @ + Move(p.dx, dt),
                      !.y = @ + Move(dy1, dt),
                      !.angle = IF p.onGround
                                THEN [quarters |-> @.quarters + RoundQuarters(@.tenths),
                                      tenths |-> 0]
                                ELSE [@ EXCEPT !.tenths = @ + p.rotationSpeed * dt],
                      !.flashTime = IF @ > 0 THEN @ - dt * 6 ELSE @,
                      !.wasOnGround = p.onGround,
                      !.onGround = FALSE]
         IN  updateParticles(p1, dt)

\* jump() that forgets to test isDead
jumpWhileDead(p) ==
    IF p.onGround /\ ~p.isRespawning
    THEN [pl |-> [p EXCEPT !.dy = p.jumpForce, !.onGround = FALSE], ret |-> TRUE]
    ELSE [pl |-> p, ret |-> FALSE]

jump(p) ==
    IF p.onGround /\ ~p.isDead /\ ~p.isRespawning
    THEN [pl |-> [p EXCEPT !.dy = p.jumpForce, !.onGround = FALSE], ret |-> TRUE]
    ELSE [pl |-> p, ret |-> FALSE]

\* createExplosion() whose inner loop stops one row early (j < 2)
createExplosionShortRow(p, s) ==
    LET particleSize == p.width \div 3
        particle(i, j) ==
            LET n == 3 * (2 * i + j) IN
            [x |-> p.x + i * particleSize,
             y |-> p.y + j * particleSize,
             width |-> particleSize, height |-> particleSize,
             dx |-> (i - 1) * 200 + Random(s, n) * 15,
             dy |-> (j - 1) * 200 + Random(s, n + 1) * 15 - 250,
             angle |-> 0,
             angleV |-> Random(s, n + 2) * 2,
             life |-> DtPerSec]
    IN  [p EXCEPT !.particles =
            [n \in 1..6 |-> particle((n - 1) \div 2, (n - 1) % 2)]]

createExplosion(p, s) ==
    LET particleSize == p.width \div 3
        particle(i, j) ==
            LET n == 3 * (3 * i + j) IN
            [x |-> p.x + i * particleSize,
             y |-> p.y + j * particleSize,
             width |-> particleSize, height |-> particleSize,
             dx |-> (i - 1) * 200 + Random(s, n) * 15,
             dy |-> (j - 1) * 200 + Random(s, n + 1) * 15 - 250,
             angle |-> 0,
             angleV |-> Random(s, n + 2) * 2,
             life |-> DtPerSec]
    IN  [p EXCEPT !.particles =
            [n \in 1..9 |-> particle((n - 1) \div 3, (n - 1) % 3)]]

\* die() without the "already dead" guard
dieAgain(p, s) ==
    LET p1 == createExplosion([p EXCEPT !.isDead = TRUE], s) IN
    IF p1.lastSafePlatform # Null
       /\ p1.lastSafePlatform.id = p1.lastDeathPlatformId
    THEN [p1 EXCEPT !.consecutiveDeaths = @ + 1]
    ELSE [p1 EXCEPT !.consecutiveDeaths = 1,
                    !.lastDeathPlatformId =
                        IF p1.lastSafePlatform # Null
                        THEN p1.lastSafePlatform.id ELSE -1]

\* die() that counts on when the platform differs instead of restarting at 1
dieCountingOn(p, s) ==
    IF p.isDead THEN p
    ELSE LET p1 == createExplosion([p EXCEPT !.isDead = TRUE], s) IN
         IF p1.lastSafePlatform # Null
            /\ p1.lastSafePlatform.id = p1.lastDeathPlatformId
         THEN [p1 EXCEPT !.consecutiveDeaths = @ + 1]
         ELSE [p1 EXCEPT !.consecutiveDeaths = @ + 1,
                         !.lastDeathPlatformId =
                             IF p1.lastSafePlatform # Null
                             THEN p1.lastSafePlatform.id ELSE -1]

\* die() that takes a missing last safe platform for the platform of id -1
dieNoPlatformMatches(p, s) ==
    IF p.isDead THEN p
    ELSE LET p1 == createExplosion([p EXCEPT !.isDead = TRUE], s)
             id == IF p1.lastSafePlatform # Null
                   THEN p1.lastSafePlatform.id ELSE -1
         IN  IF id = p1.lastDeathPlatformId
             THEN [p1 EXCEPT !.consecutiveDeaths = @ + 1]
             ELSE [p1 EXCEPT !.consecutiveDeaths = 1,
                             !.lastDeathPlatformId = id]

die(p, s) ==
    IF p.isDead THEN p
    ELSE LET p1 == createExplosion([p EXCEPT !.isDead = TRUE], s) IN
         IF p1.lastSafePlatform # Null
            /\ p1.lastSafePlatform.id = p1.lastDeathPlatformId
         THEN [p1 EXCEPT !.consecutiveDeaths = @ + 1]
         ELSE [p1 EXCEPT !.consecutiveDeaths = 1,
                         !.lastDeathPlatformId =
                             IF p1.lastSafePlatform # Null
                             THEN p1.lastSafePlatform.id ELSE -1]

\* the ledge-grab test with <= in place of <
handlePlatformCollisionLedgeAtHalf(p, platform, s) ==
    IF p.dy >= 0 /\ p.y + p.height >= platform.y
       /\ p.y + p.height < platform.y + platform.height
    THEN [pl |-> [p EXCEPT !.y = platform.y - p.height, !.dy = 0,
                           !.onGround = TRUE, !.lastSafePlatform = platform],
          ret |-> TRUE, branch |-> "landing"]
    ELSE IF p.dy < 0 /\ p.y < platform.y + platform.height /\ p.y > platform.y
    THEN [pl |-> [p EXCEPT !.y = platform.y + platform.height, !.dy = 0],
          ret |-> TRUE, branch |-> "ceiling"]
    ELSE IF p.x + p.width > platform.x /\ p.x < platform.x + platform.width
            /\ p.dx > 0 /\ p.x + p.width >= platform.x
            /\ p.y + p.height > platform.y /\ p.y < platform.y + platform.height
    THEN LET ledgeHeight == (p.y + p.height) - platform.y IN
         IF ledgeHeight > 0 /\ 2 * ledgeHeight <= p.height /\ p.dy >= 0
         THEN [pl |-> [p EXCEPT !.y = platform.y - p.height, !.dy = -120,
                                !.onGround = TRUE, !.lastSafePlatform = platform],
               ret |-> TRUE, branch |-> "ledge"]
         ELSE [pl |-> die(p, s), ret |-> FALSE, branch |-> "lethal"]
    ELSE [pl |-> p, ret |-> FALSE, branch |-> "none"]

\* the landing test with > in place of >= at the platform top
handlePlatformCollisionStrictTop(p, platform, s) ==
    IF p.dy >= 0 /\ p.y + p.height > platform.y
       /\ p.y + p.height < platform.y + platform.height
    THEN [pl |-> [p EXCEPT !.y = platform.y - p.height, !.dy = 0,
                           !.onGround = TRUE, !.lastSafePlatform = platform],
          ret |-> TRUE, branch |-> "landing"]
    ELSE IF p.dy < 0 /\ p.y < platform.y + platform.height /\ p.y > platform.y
    THEN [pl |-> [p EXCEPT !.y = platform.y + platform.height, !.dy = 0],
          ret |-> TRUE, branch |-> "ceiling"]
    ELSE IF p.x + p.width > platform.x /\ p.x < platform.x + platform.width
            /\ p.dx > 0 /\ p.x + p.width >= platform.x
            /\ p.y + p.height > platform.y /\ p.y < platform.y + platform.height
    THEN LET ledgeHeight == (p.y + p.height) - platform.y IN
         IF ledgeHeight > 0 /\ 2 * ledgeHeight < p.height /\ p.dy >= 0
         THEN [pl |-> [p EXCEPT !.y = platform.y - p.height, !.dy = -120,
                                !.onGround = TRUE, !.lastSafePlatform = platform],
               ret |-> TRUE, branch |-> "ledge"]
         ELSE [pl |-> die(p, s), ret |-> FALSE, branch |-> "lethal"]
    ELSE [pl |-> p, ret |-> FALSE, branch |-> "none"]

\* the landing snap to platform.y - height/2
handlePlatformCollisionHalfSunk(p, platform, s) ==
    IF p.dy >= 0 /\ p.y + p.height >= platform.y
       /\ p.y + p.height < platform.y + platform.height
    THEN [pl |-> [p EXCEPT !.y = platform.y - p.height \div 2, !.dy = 0,
                           !.onGround = TRUE, !.lastSafePlatform = platform],
          ret |-> TRUE, branch |-> "landing"]
    ELSE IF p.dy < 0 /\ p.y < platform.y + platform.height /\ p.y > platform.y
    THEN [pl |-> [p EXCEPT !.y = platform.y + platform.height, !.dy = 0],
          ret |-> TRUE, branch |-> "ceiling"]
    ELSE IF p.x + p.width > platform.x /\ p.x < platform.x + platform.width
            /\ p.dx > 0 /\ p.x + p.width >= platform.x
            /\ p.y + p.height > platform.y /\ p.y < platform.y + platform.height
    THEN LET ledgeHeight == (p.y + p.height) - platform.y IN
         IF ledgeHeight > 0 /\ 2 * ledgeHeight < p.height /\ p.dy >= 0
         THEN [pl |-> [p EXCEPT !.y = platform.y - p.height, !.dy = -120,
                                !.onGround = TRUE, !.lastSafePlatform = platform],
               ret |-> TRUE, branch |-> "ledge"]
         ELSE [pl |-> die(p, s), ret |-> FALSE, branch |-> "lethal"]
    ELSE [pl |-> p, ret |-> FALSE, branch |-> "none"]

\* handlePlatformCollision() whose lethal outcome also stops the fall
handlePlatformCollisionLethalStops(p, platform, s) ==
    IF p.dy >= 0 /\ p.y + p.height >= platform.y
       /\ p.y + p.height < platform.y + platform.height
    THEN [pl |-> [p EXCEPT !.y = platform.y - p.height, !.dy = 0,
                           !.onGround = TRUE, !.lastSafePlatform = platform],
          ret |-> TRUE, branch |-> "landing"]
    ELSE IF p.dy < 0 /\ p.y < platform.y + platform.height /\ p.y > platform.y
    THEN [pl |-> [p EXCEPT !.y = platform.y + platform.height, !.dy = 0],
          ret |-> TRUE, branch |-> "ceiling"]
    ELSE IF p.x + p.width > platform.x /\ p.x < platform.x + platform.width
            /\ p.dx > 0 /\ p.x + p.width >= platform.x
            /\ p.y + p.height > platform.y /\ p.y < platform.y + platform.height
    THEN LET ledgeHeight == (p.y + p.height) - platform.y IN
         IF ledgeHeight > 0 /\ 2 * ledgeHeight < p.height /\ p.dy >= 0
         THEN [pl |-> [p EXCEPT !.y = platform.y - p.height, !.dy = -120,
                                !.onGround = TRUE, !.lastSafePlatform = platform],
               ret |-> TRUE, branch |-> "ledge"]
         ELSE [pl |-> [die(p, s) EXCEPT !.dy = 0], ret |-> FALSE,
               branch |-> "lethal"]
    ELSE [pl |-> p, ret |-> FALSE, branch |-> "none"]

\* handlePlatformCollision() whose landing rule takes only a bottom edge in
\* the upper half of the platform
handlePlatformCollisionLandsUpperHalf(p, platform, s) ==
    IF p.dy >= 0 /\ p.y + p.height >= platform.y
       /\ 2 * (p.y + p.height) < 2 * platform.y + platform.height
    THEN [pl |-> [p EXCEPT !.y = platform.y - p.height, !.dy = 0,
                           !.onGround = TRUE, !.lastSafePlatform = platform],
          ret |-> TRUE, branch |-> "landing"]
    ELSE IF p.dy < 0 /\ p.y < platform.y + platform.height /\ p.y > platform.y
    THEN [pl |-> [p EXCEPT !.y = platform.y + platform.height, !.dy = 0],
          ret |-> TRUE, branch |-> "ceiling"]
    ELSE IF p.x + p.width > platform.x /\ p.x < platform.x + platform.width
            /\ p.dx > 0 /\ p.x + p.width >= platform.x
            /\ p.y + p.height > platform.y /\ p.y < platform.y + platform.height
    THEN LET ledgeHeight == (p.y + p.height) - platform.y IN
         IF ledgeHeight > 0 /\ 2 * ledgeHeight < p.height /\ p.dy >= 0
         THEN [pl |-> [p EXCEPT !.y = platform.y - p.height, !.dy = -120,
                                !.onGround = TRUE, !.lastSafePlatform = platform],
               ret |-> TRUE, branch |-> "ledge"]
         ELSE [pl |-> die(p, s), ret |-> FALSE, branch |-> "lethal"]
    ELSE [pl |-> p, ret |-> FALSE, branch |-> "none"]

handlePlatformCollision(p, platform, s) ==
    IF p.dy >= 0 /\ p.y + p.height >= platform.y
       /\ p.y + p.height < platform.y + platform.height
    THEN [pl |-> [p EXCEPT !.y = platform.y - p.height, !.dy = 0,
                           !.onGround = TRUE, !.lastSafePlatform = platform],
          ret |-> TRUE, branch |-> "landing"]
    ELSE IF p.dy < 0 /\ p.y < platform.y + platform.height /\ p.y > platform.y
    THEN [pl |-> [p EXCEPT !.y = platform.y + platform.height, !.dy = 0],
          ret |-> TRUE, branch |-> "ceiling"]
    ELSE IF p.x + p.width > platform.x /\ p.x < platform.x + platform.width
            /\ p.dx > 0 /\ p.x + p.width >= platform.x
            /\ p.y + p.height > platform.y /\ p.y < platform.y + platform.height
    THEN LET ledgeHeight == (p.y + p.height) - platform.y IN
         IF ledgeHeight > 0 /\ 2 * ledgeHeight < p.height /\ p.dy >= 0
         THEN [pl |-> [p EXCEPT !.y = platform.y - p.height, !.dy = -120,
                                !.onGround = TRUE, !.lastSafePlatform = platform],
               ret |-> TRUE, branch |-> "ledge"]
         ELSE [pl |-> die(p, s), ret |-> FALSE, branch |-> "lethal"]
    ELSE [pl |-> p, ret |-> FALSE, branch |-> "none"]

\* respawn() that puts the player on the platform instead of 20 px above it
respawnOnPlatform(p) ==
    LET respawnPlatform == p.lastSafePlatform IN
    [p EXCEPT !.isDead = FALSE, !.isRespawning = FALSE, !.particles = <<>>,
              !.consecutiveDeaths = IF @ > 6 THEN 0 ELSE @,
              !.x = IF respawnPlatform = Null THEN p.respawnX
                    ELSE respawnPlatform.x + 20 * Px,
              !.y = IF respawnPlatform = Null THEN p.respawnY
                    ELSE respawnPlatform.y - p.height,
              !.dx = p.maxSpeed, !.dy = 0,
              !.angle = [quarters |-> 0, tenths |-> 0],
              !.onGround = FALSE, !.wasOnGround = FALSE, !.flashTime = 0]

\* respawn() that resets the consecutive-death counter already at 6
respawnResetsAtSix(p) ==
    LET respawnPlatform == p.lastSafePlatform IN
    [p EXCEPT !.isDead = FALSE, !.isRespawning = FALSE, !.particles = <<>>,
              !.consecutiveDeaths = IF @ > 5 THEN 0 ELSE @,
              !.x = IF respawnPlatform = Null THEN p.respawnX
                    ELSE respawnPlatform.x + 20 * Px,
              !.y = IF respawnPlatform = Null THEN p.respawnY
                    ELSE respawnPlatform.y - p.height - 20 * Px,
              !.dx = p.maxSpeed, !.dy = 0,
              !.angle = [quarters |-> 0, tenths |-> 0],
              !.onGround = FALSE, !.wasOnGround = FALSE, !.flashTime = 0]

respawn(p) ==
    LET respawnPlatform == p.lastSafePlatform IN
    [p EXCEPT !.isDead = FALSE, !.isRespawning = FALSE, !.particles = <<>>,
              !.consecutiveDeaths = IF @ > 6 THEN 0 ELSE @,
              !.x = IF respawnPlatform = Null THEN p.respawnX
                    ELSE respawnPlatform.x + 20 * Px,
              !.y = IF respawnPlatform = Null THEN p.respawnY
                    ELSE respawnPlatform.y - p.height - 20 * Px,
              !.dx = p.maxSpeed, !.dy = 0,
              !.angle = [quarters |-> 0, tenths |-> 0],
              !.onGround = FALSE, !.wasOnGround = FALSE, !.flashTime = 0]

reset(p) ==
    [p EXCEPT !.x = p.respawnX, !.y = p.respawnY, !.dx = p.maxSpeed, !.dy = 0,
              !.angle = [quarters |-> 0, tenths |-> 0],
              !.onGround = FALSE, !.wasOnGround = FALSE, !.flashTime = 0,
              !.isDead = FALSE, !.isRespawning = FALSE, !.particles = <<>>,
              !.lastSafePlatform = Null, !.consecutiveDeaths = 0,
              !.lastDeathPlatformId = -1]

\* ------------------------------------------------------------ Collectible
\* typeConfigs of initializeType.  size in position units, rotationSpeed in
\* tenths of a radian per second.
Config(name, size, value, color, rotationSpeed, effects) ==
    [name |-> name, size |-> size * Px, value |-> value, color |-> color,
     rotationSpeed |-> rotationSpeed, effects |-> effects]

typeConfigs ==
    [pixel      |-> Config("Pixel", 8, 10, "#f1c40f", 0, <<>>),
     gem        |-> Config("Gem", 12, 50, "#e74c3c", 20, <<>>),
     star       |-> Config("Star", 15, 100, "#f39c12", 30, <<>>),
     powerUp    |-> Config("Power-Up", 14, 25, "#9b59b6", 15,
                           <<[type |-> "powerUp", speedBoost |-> 15, duration |-> 5000]>>),
     formChange |-> Config("Form Change", 16, 75, "#3498db", 25,
                           <<[type |-> "formChange", form |-> "circle"]>>),
     health     |-> Config("Health", 10, 30, "#2ecc71", 10,
                           <<[type |-> "powerUp", healthBoost |-> 10, duration |-> 0]>>),
     speedBoost |-> Config("Speed Boost", 11, 40, "#e67e22", 20,
                           <<[type |-> "powerUp", speedBoost |-> 20, duration |-> 8000]>>),
     jumpBoost  |-> Config("Jump Boost", 11, 35, "#8e44ad", 18,
                           <<[type |-> "powerUp", jumpBoost |-> 18, duration |-> 6000]>>),
     invincibility |-> Config("Invincibility", 13, 60, "#f1c40f", 40,
                           <<[type |-> "powerUp", invincible |-> TRUE, duration |-> 4000]>>),
     magnet     |-> Config("Magnet", 12, 45, "#34495e", 22,
                           <<[type |-> "powerUp", magnet |-> TRUE, duration |-> 7000]>>)]

\* sin(a), a and the result in 1/10000, by the Taylor polynomial a - a^3/6
\* (within 1/10000 of the sine for the arguments below 0.3 the model reaches)
Sin(a) == a - (a * a * a) \div 600000000

\* new Collectible(x, y, type): the constructor followed by initializeType.
\* animationFrame is in 1/10000, animationSpeed in 1/1000 per second,
\* rotation in 1/100 radian, bobOffset and glowIntensity in 1/10000,
\* pulseEffect in tenths.
NewCollectible(x, y, type) ==
    LET config == IF type \in DOMAIN typeConfigs THEN typeConfigs[type]
                  ELSE typeConfigs.pixel
    IN  [x |-> x, y |-> y, active |-> TRUE, collected |-> FALSE,
         collectionTime |-> 0, type |-> type,
         size |-> config.size, value |-> config.value,
         animationFrame |-> 0,
         animationSpeed |-> 100 + config.rotationSpeed * 5,
         bobOffset |-> 0, bobSpeed |-> 2, rotation |-> 0,
         rotationSpeed |-> config.rotationSpeed,
         color |-> config.color, glowIntensity |-> 0, pulseEffect |-> 0,
         effects |-> config.effects, name |-> config.name]

CollectibleUpdate(c, dt) ==
    IF ~c.active THEN c
    ELSE LET frame == c.animationFrame + dt * c.animationSpeed IN
         [c EXCEPT !.animationFrame = frame,
                   !.bobOffset = Sin(frame * c.bobSpeed) * 2,
                   !.rotation = @ + c.rotationSpeed * dt,
                   !.glowIntensity = 5000 + (Sin(frame * 3) * 3) \div 10,
                   !.pulseEffect = IF @ > 0 THEN @ - dt * 3 ELSE @]

\* collect() with the guard (!active && collected)
collectGuardAnd(c, now) ==
    IF ~c.active /\ c.collected
    THEN [c |-> c, ret |-> FALSE]
    ELSE [c |-> [c EXCEPT !.active = FALSE, !.collected = TRUE,
                          !.collectionTime = now, !.pulseEffect = 10],
          ret |-> TRUE]

\* collect(): now is the value performance.now() returns
collect(c, now) ==
    IF ~c.active \/ c.collected
    THEN [c |-> c, ret |-> FALSE]
    ELSE [c |-> [c EXCEPT !.active = FALSE, !.collected = TRUE,
                          !.collectionTime = now, !.pulseEffect = 10],
          ret |-> TRUE]

\* Player.setSpeed that leaves the current velocity alone
setSpeedLater(p, speed) ==
    [p EXCEPT !.maxSpeed = speed]

\* Player.setSpeed
setSpeed(p, speed) ==
    [p EXCEPT !.maxSpeed = speed, !.dx = speed]

\* Player.increaseSpeed
increaseSpeed(p, amount) ==
    [p EXCEPT !.maxSpeed = @ + amount, !.dx = p.maxSpeed + amount]

\* Player.handleCollectibleCollision: Math.hypot(..) < width/2 + size,
\* compared as squares (both sides are non-negative)
handleCollectibleCollision(p, c) ==
    IF ~c.active THEN [pl |-> p, c |-> c, ret |-> FALSE]
    ELSE LET ex == p.x + p.width \div 2 - c.x
             ey == p.y + p.height \div 2 - c.y
             reach == p.width \div 2 + c.size
         IN  IF ex * ex + ey * ey < reach * reach
             THEN [pl |-> [p EXCEPT !.flashTime = 10],
                   c |-> [c EXCEPT !.active = FALSE], ret |-> TRUE]
             ELSE [pl |-> p, c |-> c, ret |-> FALSE]

\* ----------------------------------------------------- CollectibleManager
\* The state a manager operation works on: the list, the manager's fields,
\* the player handed to checkPlayerCollision, and the list of results of
\* the collect() calls made, as <<index, result>> pairs.
World(cs, m, p, rets) == [cs |-> cs, m |-> m, pl |-> p, rets |-> rets]

NewManager == [collectedCount |-> 0, totalCount |-> 0, collectionEffects |-> <<>>]

addCollectible(w, x, y, type) ==
    [w EXCEPT !.cs = Append(@, NewCollectible(x, y, type)),
              !.m.totalCount = @ + 1]

managerUpdate(w, dt) ==
    LET aged == [n \in 1..Len(w.m.collectionEffects) |->
                    [w.m.collectionEffects[n] EXCEPT !.life = @ - dt]]
    IN  [w EXCEPT !.cs = [i \in 1..Len(w.cs) |-> CollectibleUpdate(w.cs[i], dt)],
                  !.m.collectionEffects = SelectSeq(aged, LAMBDA e : e.life > 0)]

\* collectItem() that counts whatever collect() returns
collectItemCountsEvery(w, i, now) ==
    LET r == collect(w.cs[i], now)
        w1 == [w EXCEPT !.cs[i] = r.c, !.rets = Append(@, <<i, r.ret>>)]
    IN  [w1 EXCEPT !.m.collectedCount = @ + 1,
                   !.m.collectionEffects =
                       Append(@, [x |-> r.c.x, y |-> r.c.y, value |-> r.c.value,
                                  life |-> DtPerSec, type |-> r.c.type])]

collectItem(w, i, now) ==
    LET r == collect(w.cs[i], now)
        w1 == [w EXCEPT !.cs[i] = r.c, !.rets = Append(@, <<i, r.ret>>)]
    IN  IF r.ret
        THEN [w1 EXCEPT !.m.collectedCount = @ + 1,
                        !.m.collectionEffects =
                            Append(@, [x |-> r.c.x, y |-> r.c.y, value |-> r.c.value,
                                       life |-> DtPerSec, type |-> r.c.type])]
        ELSE w1

\* the forEach of checkPlayerCollision, from index i on
RECURSIVE checkFrom(_, _, _)
checkFrom(w, i, now) ==
    IF i > Len(w.cs) THEN w
    ELSE IF w.cs[i].active
    THEN LET h == handleCollectibleCollision(w.pl, w.cs[i])
             w1 == [w EXCEPT !.pl = h.pl, !.cs[i] = h.c]
         IN  checkFrom(IF h.ret THEN collectItem(w1, i, now) ELSE w1, i + 1, now)
    ELSE checkFrom(w, i + 1, now)

checkPlayerCollision(w, now) == checkFrom(w, 1, now)

managerResetKeepsCollected(w) ==
    [w EXCEPT !.cs = [i \in 1..Len(w.cs) |-> [w.cs[i] EXCEPT !.active = TRUE]],
              !.m.collectedCount = 0,
              !.m.collectionEffects = <<>>]

managerReset(w) ==
    [w EXCEPT !.cs = [i \in 1..Len(w.cs) |->
                         [w.cs[i] EXCEPT !.active = TRUE, !.collected = FALSE]],
              !.m.collectedCount = 0,
              !.m.collectionEffects = <<>>]

managerClear(w) ==
    [w EXCEPT !.cs = <<>>, !.m = NewManager]

\* Math.random() and the weights are counted in thousandths: 1.0 is RandomOne
RandomOne == 1000

\* generateRandomType() that compares random < cumulativeWeight
generateRandomTypeStrict(random) ==
    LET types == <<"pixel", "gem", "star", "powerUp", "formChange", "health",
                   "speedBoost", "jumpBoost">>
        weights == <<400, 200, 100, 100, 50, 50, 50, 50>>
        RECURSIVE from(_, _)
        from(i, cumulativeWeight) ==
            IF i > Len(types) THEN "pixel"
            ELSE IF random < cumulativeWeight + weights[i] THEN types[i]
            ELSE from(i + 1, cumulativeWeight + weights[i])
    IN  from(1, 0)

\* CollectibleManager.generateRandomType; random is the value of
\* Math.random().  from(i, cumulativeWeight) is the loop from index i on.
generateRandomType(random) ==
    LET types == <<"pixel", "gem", "star", "powerUp", "formChange", "health",
                   "speedBoost", "jumpBoost">>
        weights == <<400, 200, 100, 100, 50, 50, 50, 50>>
        RECURSIVE from(_, _)
        from(i, cumulativeWeight) ==
            IF i > Len(types) THEN "pixel"
            ELSE IF random <= cumulativeWeight + weights[i] THEN types[i]
            ELSE from(i + 1, cumulativeWeight + weights[i])
    IN  from(1, 0)

\* -------------------------------------------------------------- GameState
\* timeScale and timeScaleTarget are counted in thousandths: 1.0 is
\* TimeScaleOne, the threshold 0.01 of update() is TimeScaleOne / 100
TimeScaleOne == 1000

\* the table GameState.states, from key to state value
states ==
    [MAIN_MENU |-> "mainMenu", PLAYING |-> "playing", PAUSED |-> "paused",
     DEAD |-> "dead", LEVEL_COMPLETE |-> "levelComplete",
     LEVEL_READY |-> "levelReady", ENTERING_PORTAL |-> "enteringPortal",
     EXITING |-> "exiting"]

\* String.prototype.toUpperCase on the characters a state argument is made
\* of: a lower-case letter becomes its upper-case letter, every other
\* character stays
LowerCaseLetters == "abcdefghijklmnopqrstuvwxyz"
UpperCaseLetters == "ABCDEFGHIJKLMNOPQRSTUVWXYZ"

RECURSIVE toUpperCase(_)
toUpperCase(s) ==
    IF s = "" THEN ""
    ELSE LET c == SubSeq(s, 1, 1)
             at == {n \in 1..Len(LowerCaseLetters) : SubSeq(LowerCaseLetters, n, n) = c}
             up == IF at = {} THEN c
                   ELSE LET n == CHOOSE n \in at : TRUE
                        IN  SubSeq(UpperCaseLetters, n, n)
         IN  up \o toUpperCase(SubSeq(s, 2, Len(s)))

NewGameState ==
    [currentState |-> states.MAIN_MENU,
     stats |-> [score |-> 0, currentLevel |-> 1, totalDeaths |-> 0,
                levelDeaths |-> 0, pixelsCollected |-> 0,
                totalPixelsInLevel |-> 0, levelStartTime |-> 0,
                consecutiveDeaths |-> 0],
     timeScale |-> TimeScaleOne,
     timeScaleTarget |-> TimeScaleOne]

\* GameState.handleStateChange; now is the value of performance.now()
handleStateChangeDeadFreezes(g, now) ==
    IF g.currentState = states.PLAYING THEN [g EXCEPT !.timeScaleTarget = TimeScaleOne]
    ELSE IF g.currentState = states.PAUSED THEN [g EXCEPT !.timeScaleTarget = 0]
    ELSE IF g.currentState = states.DEAD
    THEN [g EXCEPT !.stats.levelDeaths = @ + 1, !.stats.totalDeaths = @ + 1,
                   !.stats.consecutiveDeaths = @ + 1, !.timeScaleTarget = 0]
    ELSE IF g.currentState = states.LEVEL_COMPLETE THEN [g EXCEPT !.timeScaleTarget = 0]
    ELSE IF g.currentState = states.LEVEL_READY
    THEN [g EXCEPT !.timeScaleTarget = TimeScaleOne, !.stats.levelStartTime = now]
    ELSE g

handleStateChange(g, now) ==
    IF g.currentState = states.PLAYING THEN [g EXCEPT !.timeScaleTarget = TimeScaleOne]
    ELSE IF g.currentState = states.PAUSED THEN [g EXCEPT !.timeScaleTarget = 0]
    ELSE IF g.currentState = states.DEAD
    THEN [g EXCEPT !.stats.levelDeaths = @ + 1, !.stats.totalDeaths = @ + 1,
                   !.stats.consecutiveDeaths = @ + 1]
    ELSE IF g.currentState = states.LEVEL_COMPLETE THEN [g EXCEPT !.timeScaleTarget = 0]
    ELSE IF g.currentState = states.LEVEL_READY
    THEN [g EXCEPT !.timeScaleTarget = TimeScaleOne, !.stats.levelStartTime = now]
    ELSE g

\* arguments of setGameState: the eight state values, spellings of state
\* names in other cases, a key of the table, and a string that names no
\* state
StateArguments ==
    {"mainMenu", "playing", "paused", "dead", "levelComplete", "levelReady",
     "enteringPortal", "exiting",
     "PLAYING", "Paused", "dEAD", "LevelComplete", "level_complete",
     "victory"}

\* state.toUpperCase() for each of the arguments
UpperCased == [state \in StateArguments |-> toUpperCase(state)]

\* GameState.setGameState: the argument, in upper case, is looked up among
\* the keys of the table
setGameState(g, state, now) ==
    LET key == UpperCased[state]
        value == IF key \in DOMAIN states THEN states[key] ELSE state
    IN  handleStateChange([g EXCEPT !.currentState = value], now)

isActive(g) == g.currentState = states.PLAYING

\* GameState.update: timeScaleDiff * 0.1 is rounded to the nearest
\* thousandth (halves away from zero); dt is not used
gameStateUpdateOvershoots(g, dt) ==
    LET timeScaleDiff == g.timeScaleTarget - g.timeScale
        abs == IF timeScaleDiff < 0 THEN 0 - timeScaleDiff ELSE timeScaleDiff
    IN  IF abs * 100 > TimeScaleOne
        THEN [g EXCEPT !.timeScale = @ + timeScaleDiff + timeScaleDiff \div 10]
        ELSE IF g.timeScale # g.timeScaleTarget
        THEN [g EXCEPT !.timeScale = g.timeScaleTarget]
        ELSE g

gameStateUpdate(g, dt) ==
    LET timeScaleDiff == g.timeScaleTarget - g.timeScale
        abs == IF timeScaleDiff < 0 THEN 0 - timeScaleDiff ELSE timeScaleDiff
        tenth == (abs + 5) \div 10
    IN  IF abs * 100 > TimeScaleOne
        THEN [g EXCEPT !.timeScale =
                  IF timeScaleDiff < 0 THEN @ - tenth ELSE @ + tenth]
        ELSE IF g.timeScale # g.timeScaleTarget
        THEN [g EXCEPT !.timeScale = g.timeScaleTarget]
        ELSE g

resetLevelStats(g) ==
    [g EXCEPT !.stats.levelDeaths = 0, !.stats.pixelsCollected = 0,
              !.stats.consecutiveDeaths = 0, !.stats.levelStartTime = 0]

addScore(g, points) == [g EXCEPT !.stats.score = @ + points]

setLevel(g, level) == [g EXCEPT !.stats.currentLevel = level]

gameStateNextLevelBackwards(g) ==
    [g EXCEPT !.stats.currentLevel = @ - 1]

gameStateNextLevel(g) ==
    [g EXCEPT !.stats.currentLevel = @ + 1]

addCollectedPixel(g) == [g EXCEPT !.stats.pixelsCollected = @ + 1]

setTotalPixelsInLevel(g, total) == [g EXCEPT !.stats.totalPixelsInLevel = total]

resetConsecutiveDeaths(g) == [g EXCEPT !.stats.consecutiveDeaths = 0]

resetAllStats(g) == [g EXCEPT !.stats = NewGameState.stats]


\* ----------------------------------------------------------------- Camera
\* Camera positions are in position units; smoothness is in hundredths.
NewCamera ==
    [x |-> 0, y |-> 0, targetX |-> 0, targetY |-> 0, smoothness |-> 5,
     offsetX |-> 0, offsetY |-> 0]

\* Math.pow(1 - smoothness, n) in ten-thousandths, each product rounded
RECURSIVE PowOneMinus(_, _)
PowOneMinus(smoothness, n) ==
    IF n = 0 THEN 10000
    ELSE (PowOneMinus(smoothness, n - 1) * (100 - smoothness) + 50) \div 100

\* Camera.update with the blend factor smoothness * dt * 60, not normalised
\* by the power
cameraUpdateLinear(c, dt) ==
    LET smoothFactor == c.smoothness * 6 * dt * 100
        step(from, to) ==
            LET d == (to - from) * smoothFactor
            IN  IF d < 0 THEN 0 - ((0 - d + 5000) \div 10000)
                ELSE (d + 5000) \div 10000
    IN  [c EXCEPT !.x = @ + step(c.x, c.targetX),
                  !.y = @ + step(c.y, c.targetY)]

\* Camera.update: dt * 60 is 6 per tenth of a second
cameraUpdate(c, dt) ==
    LET smoothFactor == 10000 - PowOneMinus(c.smoothness, 6 * dt)
        step(from, to) ==
            LET d == (to - from) * smoothFactor
            IN  IF d < 0 THEN 0 - ((0 - d + 5000) \div 10000)
                ELSE (d + 5000) \div 10000
    IN  [c EXCEPT !.x = @ + step(c.x, c.targetX),
                  !.y = @ + step(c.y, c.targetY)]

cameraReset(c) == [c EXCEPT !.x = 0, !.y = 0, !.targetX = 0, !.targetY = 0]

\* Camera.follow
follow(c, target) ==
    [c EXCEPT !.targetX = target.x - c.offsetX,
              !.targetY = target.y - c.offsetY]

\* Camera.setPosition
setPosition(c, x, y) ==
    [c EXCEPT !.x = x, !.y = y, !.targetX = x, !.targetY = y]

\* Camera.setSmoothness: Math.max(0, Math.min(1, smoothness)), in hundredths
setSmoothness(c, smoothness) ==
    LET capped == IF smoothness < 100 THEN smoothness ELSE 100
    IN  [c EXCEPT !.smoothness = IF capped > 0 THEN capped ELSE 0]

\* ------------------------------------------------------------------- Game
\* The state a Game method works on: the GameState, the Player, the
\* CollectibleManager with its list, and the orchestrator's own record:
\*   camera          the Camera object
\*   level           LevelManager's current level, 0 before any level is loaded
\*   timers          respawn callbacks scheduled by setTimeout and not yet run
\*   stale           how many of the pending callbacks were scheduled before
\*                   the latest restart or new game
\*   frameRequested  a gameLoop callback is pending in requestAnimationFrame
\*   threw           the last method called ended with an uncaught exception
\* and the results of the collect() calls made, as in World.
Orchestrated(g, p, cs, m, o) ==
    [gs |-> g, pl |-> p, cs |-> cs, m |-> m, game |-> o, rets |-> <<>>]

\* Game.constructor and init(): init() stops at collectibleManager.init(),
\* which CollectibleManager does not have; the TypeError is caught, so no
\* listener is registered and startGameLoop() is not reached
\* listeners: setupEventListeners() has registered the event handlers
NewGame ==
    [camera |-> NewCamera, level |-> 0, timers |-> 0, stale |-> 0,
     frameRequested |-> FALSE, threw |-> FALSE, listeners |-> FALSE]

\* the platforms of the level: the ground under the start position and a
\* block standing on it, 30 px ahead of the player's start
LevelPlatforms ==
    << Platform(100, 140, 200, 40, 1), Platform(215, 100, 40, 40, 5) >>

\* PhysicsEngine.update: one handlePlatformCollision per platform, in order
RECURSIVE physicsFrom(_, _, _)
physicsFrom(p, n, s) ==
    IF n > Len(LevelPlatforms) THEN p
    ELSE physicsFrom(handlePlatformCollision(p, LevelPlatforms[n], s).pl, n + 1, s)

physicsEngineUpdate(p, dt, s) == physicsFrom(p, 1, s)

\* the expression this.player.isDead(): the constructor stores the boolean
\* field isDead on the instance, which hides the method of the same name, so
\* the call is a call of a boolean and throws a TypeError
playerIsDeadCall(p) == [throws |-> TRUE]

\* Game.completeLevel
completeLevel(w, now) ==
    [w EXCEPT !.gs = setGameState(@, "levelComplete", now)]

\* Game.handlePlayerDeath: the respawn callback is scheduled, never cancelled
handlePlayerDeath(w, now) ==
    [w EXCEPT !.gs = setGameState(@, "dead", now),
              !.game.timers = @ + 1,
              !.game.threw = FALSE]

\* the callback handlePlayerDeath handed to setTimeout
respawnCallback(w, now) ==
    [w EXCEPT !.pl = respawn(@),
              !.gs = setGameState(@, "playing", now),
              !.game.timers = @ - 1,
              !.game.stale = IF @ > 0 THEN @ - 1 ELSE 0,
              !.game.threw = FALSE]

\* the statements of a method run in sequence: the state reached so far is
\* computed once and handed to the rest of the method
Once(reached, Rest(_)) == CHOOSE after \in {Rest(w) : w \in {reached}} : TRUE

\* the death check at the end of Game.update
deathCheck(w, now) ==
    IF playerIsDeadCall(w.pl).throws THEN [w EXCEPT !.game.threw = TRUE]
    ELSE IF playerIsDeadCall(w.pl).value
    THEN [handlePlayerDeath(w, now) EXCEPT !.game.threw = FALSE]
    ELSE [w EXCEPT !.game.threw = FALSE]

\* Game.update without the early return for an inactive game
gameUpdateUngated(w, dt, complete, s, now) ==
    Once([w EXCEPT !.pl = physicsEngineUpdate(update(@, dt), dt, s),
                   !.game.camera = cameraUpdate(@, dt)],
         LAMBDA w1 :
    Once(checkPlayerCollision(managerUpdate(w1, dt), now),
         LAMBDA w2 :
    Once(IF complete THEN completeLevel(w2, now) ELSE w2,
         LAMBDA w3 : deathCheck(w3, now))))

\* Game.update; complete is the answer of levelManager.isLevelComplete()
gameUpdate(w, dt, complete, s, now) ==
    IF ~isActive(w.gs) THEN [w EXCEPT !.game.threw = FALSE]
    ELSE Once([w EXCEPT !.pl = physicsEngineUpdate(update(@, dt), dt, s),
                        !.game.camera = cameraUpdate(@, dt)],
              LAMBDA w1 :
         Once(checkPlayerCollision(managerUpdate(w1, dt), now),
              LAMBDA w2 :
         Once(IF complete THEN completeLevel(w2, now) ELSE w2,
              LAMBDA w3 : deathCheck(w3, now))))

\* Game.gameLoop, called back by requestAnimationFrame: dt is the capped
\* frame time; an exception in update() leaves the method before the next
\* frame is requested
gameLoop(w, dt, complete, s, now) ==
    LET w1 == gameUpdate(w, dt, complete, s, now)
    IN  [w1 EXCEPT !.game.frameRequested = ~w1.game.threw]

\* the expression this.collectibleManager.init(): CollectibleManager
\* defines no init method, so the call is a call of undefined and throws a
\* TypeError
collectibleManagerInitCall == [throws |-> TRUE]

\* Game.init, from the call to the end of its continuation: the init() of
\* AudioManager, PhysicsEngine, Renderer, UIManager, LevelManager and
\* InputManager succeed; an exception is caught and logged by init() itself
gameInit(w) ==
    IF collectibleManagerInitCall.throws
    THEN [w EXCEPT !.game.threw = FALSE]
    ELSE [w EXCEPT !.game.listeners = TRUE,
                   !.game.frameRequested = TRUE,
                   !.game.threw = FALSE]

\* Game.startGame
startGame(w, now) ==
    [w EXCEPT !.gs = setGameState(@, "playing", now),
              !.game.level = 1,
              !.pl = reset(@),
              !.game.camera = cameraReset(@),
              !.game.stale = w.game.timers,
              !.game.threw = FALSE]

\* Game.pauseGame
pauseGame(w, now) ==
    [w EXCEPT !.gs = setGameState(@, "paused", now), !.game.threw = FALSE]

\* Game.resumeGame
resumeGame(w, now) ==
    [w EXCEPT !.gs = setGameState(@, "playing", now), !.game.threw = FALSE]

\* Game.togglePause
togglePause(w, now) ==
    IF w.gs.currentState = states.PAUSED THEN resumeGame(w, now)
    ELSE pauseGame(w, now)

\* Game.restartLevel
restartLevel(w) ==
    [w EXCEPT !.pl = reset(@),
              !.game.camera = cameraReset(@),
              !.game.stale = w.game.timers,
              !.game.threw = FALSE]

\* Game.nextLevel
gameNextLevel(w) ==
    [w EXCEPT !.game.level = @ + 1,
              !.pl = reset(@),
              !.game.camera = cameraReset(@),
              !.game.threw = FALSE]

\* Game.exitGame
exitGame(w, now) ==
    [w EXCEPT !.gs = setGameState(@, "exiting", now), !.game.threw = FALSE]

\* ------------------------------------------------------ state and actions
Init ==
    /\ player = NewPlayer
    /\ collectibles = <<>>
    /\ manager = NewManager
    /\ call = [op |-> "constructor"]
    /\ trueReturns = <<>>
    /\ gs = NewGameState
    /\ scenario = 0
    /\ game = NewGame

PlayerUpdate ==
    \E dt \in Dts :
        /\ player.x + Move(player.dx, dt) <= MaxX * Px
        /\ update(player, dt).y <= MaxY * Px
        /\ player' = update(player, dt)
        /\ call' = [op |-> "update", dt |-> dt, wasDead |-> player.isDead]
        /\ UNCHANGED <<collectibles, manager, trueReturns, gameVars>>

PlayerJump ==
    /\ player' = jump(player).pl
    /\ call' = [op |-> "jump", ret |-> jump(player).ret]
    /\ UNCHANGED <<collectibles, manager, trueReturns, gameVars>>

PlayerHandlePlatformCollision ==
    \E platform \in Platforms, s \in Seeds :
        LET r == handlePlatformCollision(player, platform, s) IN
        /\ player' = r.pl
        /\ call' = [op |-> "handlePlatformCollision", platform |-> platform,
                    ret |-> r.ret, branch |-> r.branch,
                    wasDead |-> player.isDead, dy |-> player.dy,
                    bottom |-> player.y + player.height,
                    again |-> /\ call.op = "handlePlatformCollision"
                              /\ call.branch = "landing"
                              /\ call.platform = platform]
        /\ UNCHANGED <<collectibles, manager, trueReturns, gameVars>>

PlayerDie ==
    \E s \in Seeds :
        /\ player' = die(player, s)
        /\ call' = [op |-> "die", wasDead |-> player.isDead,
                    deaths |-> player.consecutiveDeaths]
        /\ UNCHANGED <<collectibles, manager, trueReturns, gameVars>>

PlayerRespawn ==
    /\ player' = respawn(player)
    /\ call' = [op |-> "respawn", deaths |-> player.consecutiveDeaths]
    /\ UNCHANGED <<collectibles, manager, trueReturns, gameVars>>

PlayerReset ==
    /\ player' = reset(player)
    /\ call' = [op |-> "reset"]
    /\ UNCHANGED <<collectibles, manager, trueReturns, gameVars>>

NextPlayer ==
    \/ PlayerUpdate
    \/ PlayerJump
    \/ PlayerHandlePlatformCollision
    \/ PlayerDie
    \/ PlayerRespawn
    \/ PlayerReset

SpecPlayer == Init /\ [][NextPlayer]_vars

\* ---- collectibles and their manager
\* where collectibles are placed: 28 px to the right of the player's start
\* centre (out of reach for a size 8 collectible, in reach for a size 12)
Positions == { <<198 * Px, 120 * Px>> }
\* "crystal" is not in typeConfigs
Types == {"gem", "crystal"}
\* values of performance.now(), in milliseconds
Nows == {1000}

Here == World(collectibles, manager, player, <<>>)

\* add the true results of this operation's collect() calls to the counts
Counted(rets) ==
    LET trues(i) == Cardinality({n \in 1..Len(rets) : rets[n] = <<i, TRUE>>})
        cap(n) == IF n > MaxCounted THEN MaxCounted ELSE n
    IN  [i \in 1..Len(trueReturns) |->
            [total |-> cap(trueReturns[i].total + trues(i)),
             sinceReset |-> cap(trueReturns[i].sinceReset + trues(i))]]

Becomes(w) ==
    /\ collectibles' = w.cs
    /\ manager' = w.m
    /\ player' = w.pl
    /\ UNCHANGED gameVars

ManagerAddCollectible ==
    \E pos \in Positions, type \in Types :
        /\ Len(collectibles) < MaxCollectibles
        /\ Becomes(addCollectible(Here, pos[1], pos[2], type))
        /\ trueReturns' = Append(trueReturns, [total |-> 0, sinceReset |-> 0])
        /\ call' = [op |-> "addCollectible"]

ManagerUpdate ==
    \E dt \in Dts :
        /\ \A i \in 1..Len(collectibles) :
              collectibles[i].animationFrame + dt * collectibles[i].animationSpeed
                  <= MaxAnimationFrame
        /\ Becomes(managerUpdate(Here, dt))
        /\ call' = [op |-> "managerUpdate", dt |-> dt]
        /\ UNCHANGED trueReturns

ManagerCheckPlayerCollision ==
    \E now \in Nows :
        LET w == checkPlayerCollision(Here, now) IN
        /\ Becomes(w)
        /\ trueReturns' = Counted(w.rets)
        /\ call' = [op |-> "checkPlayerCollision", rets |-> w.rets]

ManagerCollectItem ==
    \E i \in 1..Len(collectibles), now \in Nows :
        LET w == collectItem(Here, i, now) IN
        /\ Becomes(w)
        /\ trueReturns' = Counted(w.rets)
        /\ call' = [op |-> "collectItem", rets |-> w.rets]

CollectibleCollect ==
    \E i \in 1..Len(collectibles), now \in Nows :
        LET r == collect(collectibles[i], now) IN
        /\ collectibles' = [collectibles EXCEPT ![i] = r.c]
        /\ trueReturns' = Counted(<< <<i, r.ret>> >>)
        /\ call' = [op |-> "collect", rets |-> << <<i, r.ret>> >>]
        /\ UNCHANGED <<player, manager, gameVars>>

PlayerHandleCollectibleCollision ==
    \E i \in 1..Len(collectibles) :
        LET h == handleCollectibleCollision(player, collectibles[i]) IN
        /\ player' = h.pl
        /\ collectibles' = [collectibles EXCEPT ![i] = h.c]
        /\ call' = [op |-> "handleCollectibleCollision", ret |-> h.ret]
        /\ UNCHANGED <<manager, trueReturns, gameVars>>

ManagerReset ==
    /\ Becomes(managerReset(Here))
    /\ trueReturns' = [i \in 1..Len(trueReturns) |->
                          [trueReturns[i] EXCEPT !.sinceReset = 0]]
    /\ call' = [op |-> "managerReset"]

ManagerClear ==
    /\ Becomes(managerClear(Here))
    /\ trueReturns' = <<>>
    /\ call' = [op |-> "managerClear"]

\* ---- the CollectibleManager's operations alone
NextManager ==
    \/ ManagerAddCollectible
    \/ ManagerUpdate
    \/ ManagerCheckPlayerCollision
    \/ ManagerCollectItem
    \/ ManagerReset
    \/ ManagerClear

SpecManager == Init /\ [][NextManager]_vars

\* ---- the random type generator
\* the values Math.random() can return: [0, 1) in thousandths
Randoms == 0..(RandomOne - 1)

ManagerGenerateRandomType ==
    \E random \in Randoms :
        /\ call' = [op |-> "generateRandomType", random |-> random,
                    ret |-> generateRandomType(random)]
        /\ UNCHANGED <<player, collectibles, manager, trueReturns, gameVars>>

SpecRandomType == Init /\ [][ManagerGenerateRandomType]_vars

\* ---- the Player picking collectibles up while it moves
\* speeds handed to setSpeed, in px/s
Speeds == {0, 300}

PlayerSetSpeed ==
    \E speed \in Speeds :
        /\ player' = setSpeed(player, speed)
        /\ call' = [op |-> "setSpeed", speed |-> speed]
        /\ UNCHANGED <<collectibles, manager, trueReturns, gameVars>>

\* amounts handed to increaseSpeed, in px/s
Amounts == {-300, 300}

PlayerIncreaseSpeed ==
    \E amount \in Amounts :
        /\ player.maxSpeed + amount \in 0..MaxSpeed
        /\ player' = increaseSpeed(player, amount)
        /\ call' = [op |-> "increaseSpeed", amount |-> amount]
        /\ UNCHANGED <<collectibles, manager, trueReturns, gameVars>>

\* the Player operations at changing speeds.  Platform collisions are
\* left to SpecPlayer: at speed 0 they let the player land and fall for ever,
\* with the angle growing without bound.
NextSpeed ==
    \/ ManagerAddCollectible
    \/ PlayerHandleCollectibleCollision
    \/ PlayerUpdate
    \/ PlayerJump
    \/ PlayerDie
    \/ PlayerRespawn
    \/ PlayerReset
    \/ PlayerSetSpeed
    \/ PlayerIncreaseSpeed

SpecSpeed == Init /\ [][NextSpeed]_vars

NextPickup ==
    \/ ManagerAddCollectible
    \/ PlayerHandleCollectibleCollision
    \/ PlayerUpdate
    \/ PlayerSetSpeed
    \/ PlayerRespawn
    \/ PlayerReset

SpecPickup == Init /\ [][NextPickup]_vars

NextCollect ==
    \/ ManagerAddCollectible
    \/ ManagerUpdate
    \/ ManagerCheckPlayerCollision
    \/ ManagerCollectItem
    \/ CollectibleCollect
    \/ PlayerHandleCollectibleCollision
    \/ ManagerReset
    \/ ManagerClear

SpecCollect == Init /\ [][NextCollect]_vars

\* the caller keeps calling update(dt) with dt > 0
ManagerUpdateTick == ManagerUpdate /\ call'.dt > 0

FairSpecCollect == SpecCollect /\ WF_vars(ManagerUpdateTick)

\* ---- the game state
\* the largest number of deaths counted
MaxDeaths == 1

\* the progress of a run along MainMenu, Playing, Paused, Playing: the number
\* of transitions of the sequence made so far, 4 once the run has left it
ScenarioStep(p, from, to) ==
    IF p = 0 /\ from = states.MAIN_MENU /\ to = states.PLAYING THEN 1
    ELSE IF p = 1 /\ from = states.PLAYING /\ to = states.PAUSED THEN 2
    ELSE IF p = 2 /\ from = states.PAUSED /\ to = states.PLAYING THEN 3
    ELSE IF to = states.MAIN_MENU THEN 0
    ELSE 4

NotGameState == UNCHANGED <<player, collectibles, manager, trueReturns, game>>

GameStateSetGameState ==
    \E state \in StateArguments, now \in Nows :
        LET g == setGameState(gs, state, now) IN
        /\ g.stats.totalDeaths <= MaxDeaths
        /\ gs' = g
        /\ scenario' = ScenarioStep(scenario, gs.currentState, g.currentState)
        /\ call' = [op |-> "setGameState", state |-> state, now |-> now]
        /\ NotGameState

GameStateUpdate ==
    \E dt \in Dts :
        /\ gs' = gameStateUpdate(gs, dt)
        /\ call' = [op |-> "gameStateUpdate", dt |-> dt]
        /\ UNCHANGED scenario
        /\ NotGameState

NextGameState ==
    \/ GameStateSetGameState
    \/ GameStateUpdate

SpecGameState == Init /\ [][NextGameState]_vars


\* ---- the statistics
\* the score is followed between -MaxScore and MaxScore
MaxScore == 10
\* the largest level number
MaxLevel == 2
\* the largest number of pixels counted
MaxPixels == 1

\* arguments of addScore: a penalty and a reward
Points == {-10, 10}
Levels == 1..MaxLevel
Totals == 0..MaxPixels

GameStateAddScore ==
    \E points \in Points :
        LET g == addScore(gs, points) IN
        /\ g.stats.score >= 0 - MaxScore
        /\ g.stats.score <= MaxScore
        /\ gs' = g
        /\ call' = [op |-> "addScore", points |-> points]
        /\ UNCHANGED scenario
        /\ NotGameState

GameStateSetLevel ==
    \E level \in Levels :
        /\ gs' = setLevel(gs, level)
        /\ call' = [op |-> "setLevel", level |-> level,
                    was |-> gs.stats.currentLevel]
        /\ UNCHANGED scenario
        /\ NotGameState

GameStateNextLevel ==
    /\ gs.stats.currentLevel < MaxLevel
    /\ gs' = gameStateNextLevel(gs)
    /\ call' = [op |-> "gameStateNextLevel"]
    /\ UNCHANGED scenario
    /\ NotGameState

GameStateAddCollectedPixel ==
    /\ gs.stats.pixelsCollected < MaxPixels
    /\ gs' = addCollectedPixel(gs)
    /\ call' = [op |-> "addCollectedPixel"]
    /\ UNCHANGED scenario
    /\ NotGameState

GameStateSetTotalPixelsInLevel ==
    \E total \in Totals :
        /\ gs' = setTotalPixelsInLevel(gs, total)
        /\ call' = [op |-> "setTotalPixelsInLevel", total |-> total]
        /\ UNCHANGED scenario
        /\ NotGameState

GameStateResetLevelStats ==
    /\ gs' = resetLevelStats(gs)
    /\ call' = [op |-> "resetLevelStats"]
    /\ UNCHANGED scenario
    /\ NotGameState

GameStateResetConsecutiveDeaths ==
    /\ gs' = resetConsecutiveDeaths(gs)
    /\ call' = [op |-> "resetConsecutiveDeaths"]
    /\ UNCHANGED scenario
    /\ NotGameState

GameStateResetAllStats ==
    /\ gs' = resetAllStats(gs)
    /\ call' = [op |-> "resetAllStats"]
    /\ UNCHANGED scenario
    /\ NotGameState

NextStats ==
    \/ GameStateSetGameState
    \/ GameStateAddScore
    \/ GameStateSetLevel
    \/ GameStateNextLevel
    \/ GameStateAddCollectedPixel
    \/ GameStateSetTotalPixelsInLevel
    \/ GameStateResetLevelStats
    \/ GameStateResetConsecutiveDeaths
    \/ GameStateResetAllStats

SpecStats == Init /\ [][NextStats]_vars


\* ---- the Camera alone
\* positions handed to follow() and setPosition()
MaxTarget == 2
Targets ==
    { [x |-> 0, y |-> 0], [x |-> MaxTarget * Px, y |-> 0 - Px],
      [x |-> 0 - Px, y |-> Px] }
\* values handed to setSmoothness(), in hundredths
Smoothnesses == {-50, 0, 5, 50, 100, 150}

NotCamera == UNCHANGED <<player, collectibles, manager, trueReturns, gs, scenario>>

CameraUpdate ==
    \E dt \in Dts :
        /\ game' = [game EXCEPT !.camera = cameraUpdate(@, dt)]
        /\ call' = [op |-> "cameraUpdate", dt |-> dt]
        /\ NotCamera

CameraFollow ==
    \E target \in Targets :
        /\ game' = [game EXCEPT !.camera = follow(@, target)]
        /\ call' = [op |-> "follow"]
        /\ NotCamera

CameraSetPosition ==
    \E to \in Targets :
        /\ game' = [game EXCEPT !.camera = setPosition(@, to.x, to.y)]
        /\ call' = [op |-> "setPosition"]
        /\ NotCamera

CameraSetSmoothness ==
    \E smoothness \in Smoothnesses :
        /\ game' = [game EXCEPT !.camera = setSmoothness(@, smoothness)]
        /\ call' = [op |-> "setSmoothness", smoothness |-> smoothness]
        /\ NotCamera

CameraReset ==
    /\ game' = [game EXCEPT !.camera = cameraReset(@)]
    /\ call' = [op |-> "cameraReset"]
    /\ NotCamera

NextCamera ==
    \/ CameraUpdate
    \/ CameraFollow
    \/ CameraSetPosition
    \/ CameraSetSmoothness
    \/ CameraReset

SpecCamera == Init /\ [][NextCamera]_vars

\* ---- the orchestrator
\* at most this many respawn callbacks are pending at a time
MaxTimers == 1

ThisGame == Orchestrated(gs, player, collectibles, manager, game)

\* transition: the method has called setGameState
GameBecomes(w, transition) ==
    /\ gs' = w.gs
    /\ player' = w.pl
    /\ collectibles' = w.cs
    /\ manager' = w.m
    /\ game' = w.game
    /\ trueReturns' = Counted(w.rets)
    /\ scenario' = IF transition
                   THEN ScenarioStep(scenario, gs.currentState, w.gs.currentState)
                   ELSE scenario

\* a frame is offered while the Player and the collectibles stay in range
FrameInRange(dt) ==
    isActive(gs) =>
        /\ player.x + Move(player.dx, dt) <= MaxX * Px
        /\ \A i \in 1..Len(collectibles) :
              collectibles[i].animationFrame + dt * collectibles[i].animationSpeed
                  <= MaxAnimationFrame

\* what the record of a frame keeps: the state it started in, whether the
\* player was dead when the death check was reached, and how it ended
Frame(op, dt, w) ==
    [op |-> op, dt |-> dt, from |-> gs.currentState,
     dead |-> isActive(gs) /\ w.pl.isDead, threw |-> w.game.threw]

\* a direct call of startGameLoop()
GameStartGameLoop ==
    /\ ~game.frameRequested
    /\ game' = [game EXCEPT !.frameRequested = TRUE, !.threw = FALSE]
    /\ call' = [op |-> "startGameLoop", from |-> gs.currentState]
    /\ UNCHANGED <<player, collectibles, manager, trueReturns, gs, scenario>>

\* the frame scheduler calls gameLoop back
GameLoop ==
    \E dt \in Dts, complete \in BOOLEAN, s \in Seeds, now \in Nows :
        /\ game.frameRequested
        /\ FrameInRange(dt)
        /\ \E w \in {gameLoop(ThisGame, dt, complete, s, now)} :
              /\ GameBecomes(w, isActive(gs) /\ complete)
              /\ call' = Frame("gameLoop", dt, w)

\* a direct call of update(dt)
GameUpdate ==
    \E dt \in Dts, complete \in BOOLEAN, s \in Seeds, now \in Nows :
        /\ FrameInRange(dt)
        /\ \E w \in {gameUpdate(ThisGame, dt, complete, s, now)} :
              /\ GameBecomes(w, isActive(gs) /\ complete)
              /\ call' = Frame("gameUpdate", dt, w)

\* PlayerJump is the handler of the 'jump' input; PlayerDie is a direct call
\* of player.die().  The handlers of the 'play', 'pause', 'resume',
\* 'restart', 'nextLevel' and 'exit' events:
GameStartGame ==
    \E now \in Nows :
        /\ GameBecomes(startGame(ThisGame, now), TRUE)
        /\ call' = [op |-> "startGame", from |-> gs.currentState]

GameTogglePause ==
    \E now \in Nows :
        /\ GameBecomes(togglePause(ThisGame, now), TRUE)
        /\ call' = [op |-> "togglePause", from |-> gs.currentState]

GameResumeGame ==
    \E now \in Nows :
        /\ GameBecomes(resumeGame(ThisGame, now), TRUE)
        /\ call' = [op |-> "resumeGame", from |-> gs.currentState]

GameRestartLevel ==
    /\ GameBecomes(restartLevel(ThisGame), FALSE)
    /\ call' = [op |-> "restartLevel", from |-> gs.currentState]

GameNextLevel ==
    /\ game.level < MaxLevel
    /\ GameBecomes(gameNextLevel(ThisGame), FALSE)
    /\ call' = [op |-> "nextLevel", from |-> gs.currentState]

GameExitGame ==
    \E now \in Nows :
        /\ GameBecomes(exitGame(ThisGame, now), TRUE)
        /\ call' = [op |-> "exitGame", from |-> gs.currentState]

\* a call of init()
GameInit ==
    /\ GameBecomes(gameInit(ThisGame), FALSE)
    /\ call' = [op |-> "init", from |-> gs.currentState]

\* a direct call of handlePlayerDeath()
GameHandlePlayerDeath ==
    \E now \in Nows :
        /\ game.timers < MaxTimers
        /\ gs.stats.totalDeaths < MaxDeaths
        /\ GameBecomes(handlePlayerDeath(ThisGame, now), TRUE)
        /\ call' = [op |-> "handlePlayerDeath", from |-> gs.currentState]

\* the timer runs the oldest pending respawn callback
GameRespawnCallback ==
    \E now \in Nows :
        /\ game.timers > 0
        /\ GameBecomes(respawnCallback(ThisGame, now), TRUE)
        /\ call' = [op |-> "respawnCallback", from |-> gs.currentState,
                    stale |-> game.stale > 0]

NextGame ==
    \/ GameInit
    \/ GameStartGameLoop
    \/ GameLoop
    \/ GameUpdate
    \/ PlayerJump
    \/ PlayerDie
    \/ GameStartGame
    \/ GameTogglePause
    \/ GameResumeGame
    \/ GameRestartLevel
    \/ GameNextLevel
    \/ GameExitGame
    \/ GameHandlePlayerDeath
    \/ GameRespawnCallback

SpecGame == Init /\ [][NextGame]_vars

\* frames of a game that has collectibles, played or not
NextFrame ==
    \/ ManagerAddCollectible
    \/ GameStartGame
    \/ GameTogglePause
    \/ GameExitGame
    \/ GameUpdate
    \/ PlayerDie

SpecFrame == Init /\ [][NextFrame]_vars

\* the frame scheduler and the timer run what is pending
FairSpecGame == SpecGame /\ WF_vars(GameLoop) /\ WF_vars(GameRespawnCallback)


\* ================================================================ claims
\* ---- C1 (checked under SpecCollect)
\* C1: whenever checkPlayerCollision(player) runs while the player's centre
\* is within pickup distance (distance < width/2 + size) of an active, not
\* yet collected collectible, collect() succeeds on that collectible,
\* collectedCount grows by exactly 1 for it and exactly one collection
\* effect (its position, its value, life 1) is appended.
C1_PickupIsCredited ==
    [][call'.op = "checkPlayerCollision" =>
        LET inReach(c) ==
                LET ex == player.x + player.width \div 2 - c.x
                    ey == player.y + player.height \div 2 - c.y
                    reach == player.width \div 2 + c.size
                IN  ex * ex + ey * ey < reach * reach
            hit == {i \in 1..Len(collectibles) :
                       /\ collectibles[i].active
                       /\ ~collectibles[i].collected
                       /\ inReach(collectibles[i])}
            added == SubSeq(manager'.collectionEffects,
                            Len(manager.collectionEffects) + 1,
                            Len(manager'.collectionEffects))
        IN  /\ manager'.collectedCount = manager.collectedCount + Cardinality(hit)
            /\ Len(added) = Cardinality(hit)
            /\ \A i \in hit :
                  /\ \E n \in 1..Len(call'.rets) : call'.rets[n] = <<i, TRUE>>
                  /\ collectibles'[i].collected
                  /\ \E n \in 1..Len(added) :
                        /\ added[n].x = collectibles[i].x
                        /\ added[n].y = collectibles[i].y
                        /\ added[n].value = collectibles[i].value
                        /\ added[n].life = DtPerSec
    ]_vars

\* ---- C2 (checked under SpecPlayer)
\* C2: jump() returns true iff the player is on the ground and neither dead
\* nor respawning; then dy becomes jumpForce (-700) and onGround false, and
\* no other field changes; when it returns false no field changes.
C2_JumpContract ==
    [][call'.op = "jump" =>
        /\ call'.ret = (player.onGround /\ ~player.isDead /\ ~player.isRespawning)
        /\ call'.ret => player' = [player EXCEPT !.dy = -700, !.onGround = FALSE]
        /\ ~call'.ret => player' = player
    ]_vars

C2_Witness ==
    /\ call.op = "jump"
    /\ call.ret
    /\ player.dy = -700
    /\ ~player.onGround

\* ---- C3 (checked under SpecPlayer)
\* C3: update(dt), dt >= 0, on a dead or respawning player leaves x, y, dx,
\* dy, angle, flashTime, onGround and wasOnGround (and every field other
\* than the particle list) unchanged.
C3_DeadUpdateOnlyParticles ==
    [][(call'.op = "update" /\ (player.isDead \/ player.isRespawning)) =>
        player' = [player EXCEPT !.particles = player'.particles]
    ]_vars

C3_Witness ==
    /\ call.op = "update"
    /\ call.wasDead
    /\ call.dt > 0
    /\ player.isDead
    /\ Len(player.particles) = 9
    /\ player.particles[1].life < DtPerSec

\* ---- C4 (checked under SpecPlayer)
\* C4: die() called on a player who is already dead changes nothing: no new
\* particles, consecutiveDeaths, lastDeathPlatformId and every other field
\* keep their values.
C4_DieIdempotent ==
    [][(call'.op = "die" /\ player.isDead) => player' = player]_vars

C4_Witness ==
    /\ call.op = "die"
    /\ call.wasDead
    /\ player.isDead
    /\ Len(player.particles) = 9
    /\ player.particles[1].life < DtPerSec
    /\ player.consecutiveDeaths = 1

\* ---- C5 (checked under SpecPlayer)
\* C5: at every effective death (the player goes from alive to dead), and so
\* at the second of two successive deaths with a respawn in between, when
\* lastDeathPlatformId holds the id recorded at the earlier death: if the
\* last safe platform has that id, consecutiveDeaths grows by 1; otherwise
\* consecutiveDeaths becomes 1 and the new id (-1 without a platform) is
\* recorded as lastDeathPlatformId.
C5_ConsecutiveDeaths ==
    [][(~player.isDead /\ player'.isDead) =>
        IF player.lastSafePlatform # Null
           /\ player.lastSafePlatform.id = player.lastDeathPlatformId
        THEN /\ player'.consecutiveDeaths = player.consecutiveDeaths + 1
             /\ player'.lastDeathPlatformId = player.lastDeathPlatformId
        ELSE /\ player'.consecutiveDeaths = 1
             /\ player'.lastDeathPlatformId =
                   IF player.lastSafePlatform # Null
                   THEN player.lastSafePlatform.id ELSE -1
    ]_vars

C5_Witness ==
    /\ call.op = "die"
    /\ ~call.wasDead
    /\ player.isDead
    /\ player.consecutiveDeaths = 2
    /\ player.lastSafePlatform # Null
    /\ player.lastDeathPlatformId = player.lastSafePlatform.id

\* ---- C6 (checked under SpecPlayer)
\* C6 as stated: for a player moving right (dx > 0) with dy >= 0 whose box
\* overlaps the platform horizontally and vertically and whose penetration
\* (bottom - platform top) is at least half its height,
\* handlePlatformCollision returns false, isDead becomes true and exactly 9
\* particles exist.
C6_DeepPenetrationLethal ==
    \A platform \in Platforms, s \in Seeds :
        LET bottom == player.y + player.height
            r == handlePlatformCollision(player, platform, s)
        IN  (/\ player.dx > 0
             /\ player.dy >= 0
             /\ player.x + player.width > platform.x
             /\ player.x < platform.x + platform.width
             /\ bottom > platform.y
             /\ player.y < platform.y + platform.height
             /\ 2 * (bottom - platform.y) >= player.height)
            => (~r.ret /\ r.pl.isDead /\ Len(r.pl.particles) = 9)

\* C6 amended: the same for a living player whose bottom edge is at or below
\* the platform's bottom edge (bottom >= platform.y + platform.height), so
\* that the landing rule, which is tried first, does not apply.
C6_DeepPenetrationLethalBelow ==
    \A platform \in Platforms, s \in Seeds :
        LET bottom == player.y + player.height
            r == handlePlatformCollision(player, platform, s)
        IN  (/\ ~player.isDead
             /\ player.dx > 0
             /\ player.dy >= 0
             /\ player.x + player.width > platform.x
             /\ player.x < platform.x + platform.width
             /\ bottom >= platform.y + platform.height
             /\ player.y < platform.y + platform.height
             /\ 2 * (bottom - platform.y) >= player.height)
            => (~r.ret /\ r.pl.isDead /\ Len(r.pl.particles) = 9)

C6_Witness ==
    /\ call.op = "handlePlatformCollision"
    /\ call.branch = "lethal"
    /\ ~call.ret
    /\ ~call.wasDead
    /\ call.dy > 0
    /\ call.bottom >= call.platform.y + call.platform.height
    /\ 2 * (call.bottom - call.platform.y) >= player.height
    /\ player.isDead
    /\ Len(player.particles) = 9

\* ---- C7 (checked under SpecPlayer)
\* C7: when handlePlatformCollision reaches the side-contact rule (dx > 0,
\* horizontal and vertical overlap, neither the landing nor the ceiling rule
\* applies), the outcome depends only on pen = bottom - platform top and on
\* dy: a ledge grab (snap onto the platform, dy = -120, grounded, platform
\* recorded as last safe, returns true) iff 0 < pen < height/2 and dy >= 0;
\* otherwise lethal (die() is called, returns false, position and velocity
\* untouched), in particular at pen = height/2 and for an ascending player.
C7_SideContactOutcome ==
    \A platform \in Platforms, s \in Seeds :
        LET bottom == player.y + player.height
            pen == bottom - platform.y
            landing == /\ player.dy >= 0
                       /\ bottom >= platform.y
                       /\ bottom < platform.y + platform.height
            ceiling == /\ player.dy < 0
                       /\ player.y < platform.y + platform.height
                       /\ player.y > platform.y
            side == /\ ~landing
                    /\ ~ceiling
                    /\ player.dx > 0
                    /\ player.x + player.width > platform.x
                    /\ player.x < platform.x + platform.width
                    /\ bottom > platform.y
                    /\ player.y < platform.y + platform.height
            r == handlePlatformCollision(player, platform, s)
        IN  side =>
              IF 0 < pen /\ 2 * pen < player.height /\ player.dy >= 0
              THEN /\ r.ret
                   /\ r.pl = [player EXCEPT !.y = platform.y - player.height,
                                            !.dy = -120,
                                            !.onGround = TRUE,
                                            !.lastSafePlatform = platform]
              ELSE /\ ~r.ret
                   /\ r.pl.isDead
                   /\ ~player.isDead => Len(r.pl.particles) = 9
                   /\ r.pl.x = player.x /\ r.pl.y = player.y
                   /\ r.pl.dx = player.dx /\ r.pl.dy = player.dy

C7_Witness ==
    /\ call.op = "handlePlatformCollision"
    /\ call.branch = "lethal"
    /\ ~call.ret
    /\ call.dy >= 0
    /\ 2 * (call.bottom - call.platform.y) = player.height
    /\ player.isDead

\* ---- C8 (checked under SpecPlayer)
\* C8: if dy >= 0 and platform top <= bottom < platform top + platform
\* height, handlePlatformCollision snaps the bottom edge to the platform
\* top, sets dy = 0 and onGround, records the platform as lastSafePlatform
\* and returns true; the at-rest case dy = 0, bottom = platform top included.
C8_Landing ==
    \A platform \in Platforms, s \in Seeds :
        LET bottom == player.y + player.height
            r == handlePlatformCollision(player, platform, s)
        IN  (/\ player.dy >= 0
             /\ platform.y <= bottom
             /\ bottom < platform.y + platform.height)
            => /\ r.ret
               /\ r.pl = [player EXCEPT !.y = platform.y - player.height,
                                        !.dy = 0,
                                        !.onGround = TRUE,
                                        !.lastSafePlatform = platform]

C8_Witness ==
    /\ call.op = "handlePlatformCollision"
    /\ call.branch = "landing"
    /\ call.ret
    /\ ~call.again
    /\ call.dy = 0
    /\ call.bottom = call.platform.y
    /\ player.onGround
    /\ player.dy = 0
    /\ player.y + player.height = call.platform.y

\* ---- C9 (checked under SpecPlayer)
\* C9: a handlePlatformCollision call that immediately follows a landing on
\* the same platform leaves every player field as the first call left it.
C9_LandingIdempotent ==
    [][(call'.op = "handlePlatformCollision" /\ call'.again) => player' = player]_vars

C9_Witness ==
    /\ call.op = "handlePlatformCollision"
    /\ call.again
    /\ call.branch = "landing"
    /\ player.lastSafePlatform = call.platform
    /\ player.onGround

\* ---- C10 (checked under SpecCollect)
\* C10 as stated: over any sequence of operations collect() returns true at
\* most once on an instance: after the first true every call returns false.
C10_CollectTrueOnce ==
    \A i \in 1..Len(trueReturns) : trueReturns[i].total <= 1

\* C10 amended: between two CollectibleManager.reset() calls collect()
\* returns true at most once on an instance: a call returns true only on an
\* active, uncollected instance that has not returned true since the last
\* reset, it leaves the instance collected, and a direct call (collect() or
\* collectItem()) on an active, uncollected instance does return true.
C10_CollectTrueOncePerReset ==
    [][call'.op \in {"collect", "collectItem", "checkPlayerCollision"} =>
        \A n \in 1..Len(call'.rets) :
            LET i == call'.rets[n][1]
                ret == call'.rets[n][2]
                fresh == collectibles[i].active /\ ~collectibles[i].collected
            IN  /\ ret => /\ fresh
                          /\ trueReturns[i].sinceReset = 0
                          /\ collectibles'[i].collected
                          /\ ~collectibles'[i].active
                /\ (call'.op # "checkPlayerCollision" /\ fresh) => ret
    ]_vars

C10_Witness ==
    /\ call.op = "collect"
    /\ call.rets = << <<1, FALSE>> >>
    /\ collectibles[1].collected
    /\ trueReturns[1].sinceReset = 1

\* ---- C11 (checked under SpecCollect)
\* C11: in every reachable state a collected collectible is inactive; since
\* the last manager reset collect() has succeeded at most once on each
\* collectible, and the manager's collectedCount credits no more than the
\* collectibles that are collected.
C11_CollectedIsInactive ==
    /\ \A i \in 1..Len(collectibles) :
          /\ collectibles[i].collected => ~collectibles[i].active
          /\ trueReturns[i].sinceReset <= 1
          /\ trueReturns[i].sinceReset = 1 => collectibles[i].collected
    /\ manager.collectedCount
          <= Cardinality({i \in 1..Len(collectibles) : collectibles[i].collected})

\* a second collectItem() on a collectible the manager has already credited
C11_Witness ==
    /\ call.op = "collectItem"
    /\ call.rets = << <<1, FALSE>> >>
    /\ collectibles[1].collected
    /\ ~collectibles[1].active
    /\ manager.collectedCount = 1
    /\ trueReturns[1].sinceReset = 1

\* ---- C12 (checked under SpecGameState)
\* C12: along MainMenu, Playing, Paused, Playing the time-scale target is
\* 1, then 0, then 1; every update() keeps the target, moves timeScale
\* towards it (strictly closer while they differ) without crossing it, so the
\* gap never grows, and timeScale stays within [0, 1].
C12_TimeScaleEasing ==
    [][ /\ scenario' \in {1, 3} => gs'.timeScaleTarget = TimeScaleOne
        /\ scenario' = 2 => gs'.timeScaleTarget = 0
        /\ call'.op = "gameStateUpdate" =>
              LET target == gs.timeScaleTarget
                  gap(g) == IF g.timeScale < target THEN target - g.timeScale
                            ELSE g.timeScale - target
              IN  /\ gs'.timeScaleTarget = target
                  /\ gap(gs') <= gap(gs)
                  /\ gap(gs) > 0 => gap(gs') < gap(gs)
                  /\ gs.timeScale <= target => gs'.timeScale <= target
                  /\ gs.timeScale >= target => gs'.timeScale >= target
        /\ gs'.timeScale >= 0
        /\ gs'.timeScale <= TimeScaleOne
    ]_vars

\* resumed after a pause: the sequence is complete and update() has brought
\* timeScale part of the way back up
C12_Witness ==
    /\ scenario = 3
    /\ call.op = "gameStateUpdate"
    /\ gs.currentState = states.PLAYING
    /\ gs.timeScaleTarget = TimeScaleOne
    /\ gs.timeScale > 0
    /\ gs.timeScale < TimeScaleOne

\* ---- C13 (checked under SpecGameState)
\* C13: setGameState is case-insensitive in the state names: called with any
\* spelling of one of the eight state values that differs from it only in
\* the case of letters, it makes currentState that state value and applies
\* that state's hook; called with anything else it stores the argument as it
\* is and changes nothing else.
C13_CaseInsensitiveNames ==
    [][call'.op = "setGameState" =>
        LET named == {key \in DOMAIN states :
                         toUpperCase(states[key]) = toUpperCase(call'.state)}
        IN  IF named # {}
            THEN LET value == states[CHOOSE key \in named : TRUE]
                 IN  gs' = handleStateChange([gs EXCEPT !.currentState = value],
                                             call'.now)
            ELSE gs' = [gs EXCEPT !.currentState = call'.state]
    ]_vars

\* ---- C14 (checked under SpecGameState)
\* C14: every setGameState applies the effect of the new state's hook once
\* and nothing more: Playing and LevelReady set the target to 1 (LevelReady
\* also stamps levelStartTime), Paused and LevelComplete set it to 0, Dead
\* adds exactly 1 to levelDeaths, totalDeaths and consecutiveDeaths and
\* leaves timeScale, timeScaleTarget, score and currentLevel as they were,
\* and every other state has no effect.
C14_HookOncePerTransition ==
    [][call'.op = "setGameState" =>
        LET new == gs'.currentState
            before == [gs EXCEPT !.currentState = new]
        IN  /\ new \in {states.PLAYING, states.LEVEL_READY} =>
                  gs' = [before EXCEPT
                            !.timeScaleTarget = TimeScaleOne,
                            !.stats.levelStartTime =
                                IF new = states.LEVEL_READY THEN call'.now ELSE @]
            /\ new \in {states.PAUSED, states.LEVEL_COMPLETE} =>
                  gs' = [before EXCEPT !.timeScaleTarget = 0]
            /\ new = states.DEAD =>
                  /\ gs'.stats.levelDeaths = gs.stats.levelDeaths + 1
                  /\ gs'.stats.totalDeaths = gs.stats.totalDeaths + 1
                  /\ gs'.stats.consecutiveDeaths = gs.stats.consecutiveDeaths + 1
                  /\ gs'.timeScale = gs.timeScale
                  /\ gs'.timeScaleTarget = gs.timeScaleTarget
                  /\ gs'.stats.score = gs.stats.score
                  /\ gs'.stats.currentLevel = gs.stats.currentLevel
                  /\ gs'.stats.pixelsCollected = gs.stats.pixelsCollected
                  /\ gs'.stats.totalPixelsInLevel = gs.stats.totalPixelsInLevel
                  /\ gs'.stats.levelStartTime = gs.stats.levelStartTime
            /\ new \notin {states.PLAYING, states.LEVEL_READY, states.PAUSED,
                           states.LEVEL_COMPLETE, states.DEAD} =>
                  gs' = before
    ]_vars

\* Dead entered while the time scale was easing down to a pause target
C14_Witness ==
    /\ call.op = "setGameState"
    /\ gs.currentState = states.DEAD
    /\ gs.stats.totalDeaths = 1
    /\ gs.stats.levelDeaths = 1
    /\ gs.stats.consecutiveDeaths = 1
    /\ gs.timeScaleTarget = 0
    /\ gs.timeScale > 0
    /\ gs.timeScale < TimeScaleOne

\* ---- C15 (checked under SpecStats)
\* C15 as stated: no GameState operation other than resetLevelStats,
\* resetConsecutiveDeaths and resetAllStats decreases score, currentLevel,
\* totalDeaths, levelDeaths, pixelsCollected or consecutiveDeaths.
C15_StatsMonotonic ==
    [][call'.op \notin {"resetLevelStats", "resetConsecutiveDeaths", "resetAllStats"} =>
        /\ gs'.stats.score >= gs.stats.score
        /\ gs'.stats.currentLevel >= gs.stats.currentLevel
        /\ gs'.stats.totalDeaths >= gs.stats.totalDeaths
        /\ gs'.stats.levelDeaths >= gs.stats.levelDeaths
        /\ gs'.stats.pixelsCollected >= gs.stats.pixelsCollected
        /\ gs'.stats.consecutiveDeaths >= gs.stats.consecutiveDeaths
    ]_vars

\* C15 amended: addScore adds its argument to the score, so the score
\* decreases exactly when the argument is negative; setLevel stores its
\* argument, so currentLevel decreases exactly when the argument is below
\* it; apart from these two and the three resets no GameState operation
\* (setGameState, update, nextLevel, addCollectedPixel,
\* setTotalPixelsInLevel) decreases any of the six statistics.
C15_StatsMonotonicButSetters ==
    [][ /\ call'.op \notin {"resetLevelStats", "resetConsecutiveDeaths", "resetAllStats"} =>
              /\ gs'.stats.score >= gs.stats.score
                    \/ (call'.op = "addScore" /\ call'.points < 0)
              /\ gs'.stats.currentLevel >= gs.stats.currentLevel
                    \/ (call'.op = "setLevel" /\ call'.level < gs.stats.currentLevel)
              /\ gs'.stats.totalDeaths >= gs.stats.totalDeaths
              /\ gs'.stats.levelDeaths >= gs.stats.levelDeaths
              /\ gs'.stats.pixelsCollected >= gs.stats.pixelsCollected
              /\ gs'.stats.consecutiveDeaths >= gs.stats.consecutiveDeaths
        /\ call'.op = "addScore" => gs'.stats.score = gs.stats.score + call'.points
        /\ call'.op = "setLevel" => gs'.stats.currentLevel = call'.level
        /\ \A dt \in Dts : gameStateUpdate(gs, dt).stats = gs.stats
    ]_vars

\* a level was set below the current one after deaths and a pickup
C15_Witness ==
    /\ call.op = "setLevel"
    /\ call.was = 2
    /\ call.level = 1
    /\ gs.stats.currentLevel = 1
    /\ gs.stats.totalDeaths = 1
    /\ gs.stats.pixelsCollected = 1
    /\ gs.stats.score = 10

\* ---- C16 (checked under SpecGame)
\* C16: Exiting is terminal: once the game state is Exiting no UI event,
\* input event, frame or respawn callback changes it.
C16_ExitingIsTerminal ==
    [][gs.currentState = states.EXITING => gs'.currentState = states.EXITING]_vars

\* ---- C17 (checked under FairSpecGame)
\* C17: a frame of the game loop that reaches its death check with the
\* player dead is eventually followed by a state in which the game is
\* Playing and the player is alive again.
C17_DeathLeadsToRespawn ==
    (call.op = "gameLoop" /\ call.dead)
        ~> (gs.currentState = states.PLAYING /\ ~player.isDead)

\* ---- C18 (checked under FairSpecGame)
\* C18: once the 'nextLevel' event has been handled in state LevelComplete,
\* the state eventually is LevelReady and eventually is Playing.
C18_NextLevelResumesPlay ==
    /\ (call.op = "nextLevel" /\ call.from = states.LEVEL_COMPLETE)
           ~> (gs.currentState = states.LEVEL_READY)
    /\ (call.op = "nextLevel" /\ call.from = states.LEVEL_COMPLETE)
           ~> (gs.currentState = states.PLAYING)

\* ---- C19 (checked under SpecGame)
\* C19: whenever the game state changes to Paused, it changes from Playing.
C19_PausedOnlyFromPlaying ==
    [][(gs'.currentState = states.PAUSED /\ gs.currentState # states.PAUSED)
           => gs.currentState = states.PLAYING]_vars

\* ---- C20 (checked under SpecGame)
\* C20: a respawn callback that was scheduled before a restart or a new game
\* reset the player changes neither the player nor the game state when it
\* runs.
C20_StaleRespawnIsIgnored ==
    [][(call'.op = "respawnCallback" /\ call'.stale)
           => (player' = player /\ gs' = gs)]_vars

\* ---- C21 (checked under FairSpecGame)
\* C21: while gameLoop frames keep arriving, a Paused game eventually has
\* timeScale 0 unless it leaves Paused, and a Playing game eventually has
\* timeScale 1 unless it leaves Playing.
C21_EasingRunsWhilePaused ==
    /\ (gs.currentState = states.PAUSED /\ game.frameRequested)
           ~> (gs.timeScale = 0 \/ gs.currentState # states.PAUSED)
    /\ (gs.currentState = states.PLAYING /\ game.frameRequested)
           ~> (gs.timeScale = TimeScaleOne \/ gs.currentState # states.PLAYING
                  \/ ~game.frameRequested)

\* ---- C22 (checked under SpecGame)
\* C22: no call of Game.update, direct or from gameLoop, ends with an
\* uncaught exception.
C22_FrameCompletesNormally ==
    [][call'.op \in {"gameUpdate", "gameLoop"} => ~game'.threw]_vars

\* ---- C23 (checked under SpecPlayer)
\* C23: apart from reset(), no step takes a dead player whose respawning
\* flag is clear straight to a living player whose flag is clear: the flag
\* is set in between; and a living player never has the flag set.
C23_RespawnPassesThroughRespawning ==
    [][/\ (player.isDead /\ ~player.isRespawning /\ call'.op # "reset")
              => ~(~player'.isDead /\ ~player'.isRespawning)
       /\ ~player'.isDead => ~player'.isRespawning]_vars

\* ---- C24 (checked under SpecPlayer)
\* C24: update(dt) on a living, non-respawning player leaves onGround false
\* and wasOnGround equal to the onGround it found; and a jump() called right
\* after such an update, with no handlePlatformCollision in between, returns
\* false and changes nothing.
C24_UpdateClearsGrounding ==
    [][/\ (call'.op = "update" /\ ~player.isDead /\ ~player.isRespawning)
              => (~player'.onGround /\ player'.wasOnGround = player.onGround)
       /\ (call.op = "update" /\ ~call.wasDead /\ call'.op = "jump")
              => (~call'.ret /\ player' = player)]_vars

\* a jump() has failed on a living player whose last update found it on
\* the ground
C24_Witness ==
    /\ call.op = "jump" /\ ~call.ret
    /\ ~player.isDead /\ player.wasOnGround /\ ~player.onGround

\* ---- C25 (checked under SpecPlayer)
\* C25: respawn() leaves isDead and isRespawning false, no particles,
\* dy = 0, angle = 0, onGround and wasOnGround false, flashTime = 0 and
\* dx = maxSpeed, and puts the player at (lastSafePlatform.x + 20,
\* lastSafePlatform.y - height - 20) when there is a last safe platform and
\* at (respawnX, respawnY) otherwise.
C25_RespawnPostconditions ==
    [][call'.op = "respawn" =>
          /\ ~player'.isDead /\ ~player'.isRespawning
          /\ player'.particles = <<>>
          /\ player'.dy = 0
          /\ player'.angle = [quarters |-> 0, tenths |-> 0]
          /\ ~player'.onGround /\ ~player'.wasOnGround
          /\ player'.flashTime = 0
          /\ player'.dx = player.maxSpeed
          /\ player'.maxSpeed = player.maxSpeed
          /\ player'.lastSafePlatform = player.lastSafePlatform
          /\ IF player.lastSafePlatform # Null
             THEN /\ player'.x = player.lastSafePlatform.x + 20 * Px
                  /\ player'.y = player.lastSafePlatform.y - player.height - 20 * Px
             ELSE /\ player'.x = player.respawnX
                  /\ player'.y = player.respawnY]_vars

\* respawn() has put a player that died after leaving a platform back
\* above that platform
C25_Witness ==
    /\ call.op = "respawn"
    /\ player.lastSafePlatform # Null
    /\ player.lastDeathPlatformId = player.lastSafePlatform.id
    /\ player.consecutiveDeaths >= 1
    /\ player.x = player.lastSafePlatform.x + 20 * Px
    /\ player.y = player.lastSafePlatform.y - player.height - 20 * Px

\* ---- C26 (checked under SpecPlayer)
\* C26: respawn() sets consecutiveDeaths to 0 when it is greater than 6 and
\* leaves it unchanged otherwise, and after every Player operation
\* consecutiveDeaths is between 0 and 7.
C26_ConsecutiveDeathsBounded ==
    [][/\ call'.op = "respawn" =>
              player'.consecutiveDeaths =
                  IF player.consecutiveDeaths > 6 THEN 0
                  ELSE player.consecutiveDeaths
       /\ player'.consecutiveDeaths \in 0..7]_vars

\* respawn() has reset the counter after the seventh death in a row
C26_Witness ==
    call.op = "respawn" /\ call.deaths = 7 /\ player.consecutiveDeaths = 0

\* ---- C27 (checked under SpecPickup)
\* C27: flashTime is never below 0.
C27_FlashTimeNonNegative ==
    player.flashTime >= 0

\* ---- C28 (checked under FairSpecCollect)
\* C28: while update(dt) keeps being called with dt > 0, a collectible
\* whose collect() has set pulseEffect to 1 eventually has pulseEffect at or
\* below 0, unless it is reset or removed from the list first.
C28_PulseDecaysAfterCollect ==
    (Len(collectibles) >= 1 /\ collectibles[1].collected
        /\ collectibles[1].pulseEffect = 10)
        ~> (\/ Len(collectibles) = 0
            \/ ~collectibles[1].collected
            \/ collectibles[1].pulseEffect <= 0)

\* ---- C29 (checked under SpecCamera)
\* C29: with the smoothness in [0, 1], Camera.update(dt) with dt > 0 leaves
\* the target alone and moves each coordinate to a point between where it
\* was and the target, ends included: the distance to the target does not
\* grow and the position does not cross the target.
C29_CameraNeverOvershoots ==
    [][LET Between(from, at, to) ==
               \/ from <= at /\ at <= to
               \/ to <= at /\ at <= from
       IN
       (call'.op = "cameraUpdate" /\ call'.dt > 0) =>
          /\ game.camera.smoothness \in 0..100
          /\ game'.camera.targetX = game.camera.targetX
          /\ game'.camera.targetY = game.camera.targetY
          /\ Between(game.camera.x, game'.camera.x, game.camera.targetX)
          /\ Between(game.camera.y, game'.camera.y, game.camera.targetY)]_vars

\* an update with dt > 0 and a smoothness strictly between 0 and 1 has
\* left the camera short of a target it was away from
C29_Witness ==
    /\ call.op = "cameraUpdate" /\ call.dt > 0
    /\ game.camera.smoothness \in 1..99
    /\ game.camera.x # game.camera.targetX
    /\ game.camera.x # 0 /\ game.camera.x # MaxTarget * Px
    /\ game.camera.x # 0 - Px

\* ---- C30 (checked under SpecRandomType)
\* C30: for a draw r in [0, 1), generateRandomType returns the first type of
\* the table pixel, gem, star, powerUp, formChange, health, speedBoost,
\* jumpBoost whose cumulative weight 0.40, 0.60, 0.70, 0.80, 0.85, 0.90,
\* 0.95, 1.00 is at least r, and so always a type of the table.
C30_FirstTypeReachingDraw ==
    LET table == << [type |-> "pixel", upTo |-> 400],
                    [type |-> "gem", upTo |-> 600],
                    [type |-> "star", upTo |-> 700],
                    [type |-> "powerUp", upTo |-> 800],
                    [type |-> "formChange", upTo |-> 850],
                    [type |-> "health", upTo |-> 900],
                    [type |-> "speedBoost", upTo |-> 950],
                    [type |-> "jumpBoost", upTo |-> 1000] >>
    IN  call.op = "generateRandomType" =>
            \E i \in 1..Len(table) :
                /\ call.ret = table[i].type
                /\ table[i].upTo >= call.random
                /\ \A j \in 1..(i - 1) : table[j].upTo < call.random

\* the draw that equals the cumulative weight of pixel has returned pixel
C30_Witness ==
    /\ call.op = "generateRandomType"
    /\ call.random = 400 /\ call.ret = "pixel"

\* ---- C31 (checked under SpecFrame)
\* C31: a Game.update(dt) called while the game state is not Playing leaves
\* the player, the camera, the collectibles and their manager, the game
\* state and the pending respawn timers as they were.
C31_UpdateGatedOnPlaying ==
    [][(call'.op = "gameUpdate" /\ gs.currentState # states.PLAYING) =>
          /\ player' = player
          /\ game'.camera = game.camera
          /\ collectibles' = collectibles
          /\ manager' = manager
          /\ gs' = gs
          /\ game'.timers = game.timers]_vars

\* update(dt > 0) has been called in Paused with an active collectible
\* within the player's reach
C31_Witness ==
    /\ call.op = "gameUpdate" /\ call.dt > 0 /\ call.from = states.PAUSED
    /\ Len(collectibles) >= 1
    /\ collectibles[1].active
    /\ handleCollectibleCollision(player, collectibles[1]).ret

\* ---- C32 (checked under SpecPlayer)
\* C32: the effect of a handlePlatformCollision call is that of one
\* resolution or of none: a call that returns true has made the landing, the
\* ceiling-bump or the ledge-grab changes and no other; a call that returns
\* false has either changed no field or killed a living player, and the
\* kill leaves x, y, dx and dy as they were.
C32_OneResolutionPerCall ==
    [][call'.op = "handlePlatformCollision" =>
          LET platform == call'.platform
              landed == player' =
                  [player EXCEPT !.y = platform.y - player.height, !.dy = 0,
                                 !.onGround = TRUE,
                                 !.lastSafePlatform = platform]
              bumped == player' =
                  [player EXCEPT !.y = platform.y + platform.height, !.dy = 0]
              grabbed == player' =
                  [player EXCEPT !.y = platform.y - player.height, !.dy = -120,
                                 !.onGround = TRUE,
                                 !.lastSafePlatform = platform]
              killed == /\ ~player.isDead /\ player'.isDead
                        /\ player'.x = player.x /\ player'.y = player.y
                        /\ player'.dx = player.dx /\ player'.dy = player.dy
          IN  /\ call'.ret =>
                    /\ landed \/ bumped \/ grabbed
                    /\ ~(landed /\ bumped) /\ ~(landed /\ grabbed)
                    /\ ~(bumped /\ grabbed)
                    /\ player'.isDead = player.isDead
              /\ ~call'.ret => (player' = player \/ killed)
              /\ call'.branch = "lethal" => (player' = player \/ killed)]_vars

\* a call has killed a falling player and left it where it was
C32_Witness ==
    /\ call.op = "handlePlatformCollision" /\ ~call.ret
    /\ call.branch = "lethal" /\ ~call.wasDead
    /\ player.isDead /\ player.dy > 0 /\ player.dy = call.dy
    /\ player.y + player.height = call.bottom

\* ---- C33 (checked under FairSpecGame)
\* C33: once die() has killed a living player in a Playing game whose frame
\* loop runs and that has counted no death yet, totalDeaths and levelDeaths
\* eventually count it, unless a restart revives the player first.
C33_DeathIsCounted ==
    (/\ call.op = "die" /\ ~call.wasDead
     /\ gs.currentState = states.PLAYING /\ game.frameRequested
     /\ gs.stats.totalDeaths = 0 /\ gs.stats.levelDeaths = 0)
        ~> (\/ gs.stats.totalDeaths >= 1 /\ gs.stats.levelDeaths >= 1
            \/ ~player.isDead)

\* ---- C34 (checked under SpecPlayer)
\* C34: a handlePlatformCollision call with a platform that the player's
\* box does not overlap horizontally returns false and changes no field.
C34_NoChangeWithoutHorizontalOverlap ==
    [][(/\ call'.op = "handlePlatformCollision"
        /\ \/ player.x + player.width <= call'.platform.x
           \/ player.x >= call'.platform.x + call'.platform.width)
           => (~call'.ret /\ player' = player)]_vars

\* ---- C35 (checked under SpecPlayer)
\* C35: a handlePlatformCollision call makes the ledge grab (returns true
\* with the bounce dy = -120) only when the player's bottom edge is at or
\* below the platform's bottom edge, hence only against a platform less
\* than half the player's height tall.
C35_LedgeGrabOnlyBelowPlatform ==
    [][(/\ call'.op = "handlePlatformCollision"
        /\ call'.ret /\ player'.dy = -120)
           => /\ player.y + player.height
                     >= call'.platform.y + call'.platform.height
              /\ 2 * call'.platform.height < player.height
              /\ call'.branch = "ledge"]_vars

\* a ledge grab has happened, from below the bottom edge of a thin platform
C35_Witness ==
    /\ call.op = "handlePlatformCollision"
    /\ call.ret /\ call.branch = "ledge" /\ player.dy = -120
    /\ call.bottom >= call.platform.y + call.platform.height
    /\ player.y + player.height = call.platform.y

\* ---- C36 (checked under SpecPlayer)
\* C36: whenever a living player without a last safe platform is killed, by
\* die() or by a lethal collision, consecutiveDeaths becomes 1 and
\* lastDeathPlatformId becomes -1.
C36_NoPlatformDeathsDoNotAccumulate ==
    [][(~player.isDead /\ player'.isDead /\ player.lastSafePlatform = Null)
           => /\ player'.consecutiveDeaths = 1
              /\ player'.lastDeathPlatformId = -1]_vars

\* die() has killed a player without a safe platform whose counter was
\* already 1 from an earlier such death
C36_Witness ==
    /\ call.op = "die" /\ ~call.wasDead /\ call.deaths = 1
    /\ player.isDead /\ player.lastSafePlatform = Null
    /\ player.consecutiveDeaths = 1 /\ player.lastDeathPlatformId = -1

\* ---- C37 (checked under SpecSpeed)
\* C37: the horizontal velocity equals the cruise-speed setting, in every
\* state and after a handlePlatformCollision call made in it.
C37_DxIsMaxSpeed ==
    /\ player.dx = player.maxSpeed
    /\ \A platform \in Platforms, s \in Seeds :
          LET r == handlePlatformCollision(player, platform, s)
          IN  r.pl.dx = r.pl.maxSpeed

\* the speed has been set to 0 and a player killed at that speed has
\* respawned
C37_Witness ==
    /\ call.op = "respawn" /\ call.deaths >= 1
    /\ player.maxSpeed = 0 /\ player.dx = 0

\* ---- C38 (checked under SpecPlayer)
\* C38: after every operation a living player has no particles and a dead
\* player has none or exactly 9, all with the same positive life; and an
\* update(dt) of 9 particles removes all of them when their life minus dt is
\* at or below 0 and otherwise keeps all 9 with that life.
C38_ParticlesAllOrNone ==
    [][/\ ~player'.isDead => player'.particles = <<>>
       /\ Len(player'.particles) \in {0, 9}
       /\ \A n \in 1..Len(player'.particles) :
             /\ player'.particles[n].life = player'.particles[1].life
             /\ player'.particles[n].life > 0
       /\ (call'.op = "update" /\ Len(player.particles) = 9) =>
             IF player.particles[1].life - call'.dt <= 0
             THEN player'.particles = <<>>
             ELSE /\ Len(player'.particles) = 9
                  /\ player'.particles[1].life
                         = player.particles[1].life - call'.dt]_vars

\* an update has removed the particles of a player that is still dead
C38_Witness ==
    /\ call.op = "update" /\ call.wasDead /\ call.dt > 0
    /\ player.isDead /\ player.particles = <<>>

\* ---- C39 (checked under SpecManager)
\* C39: totalCount is the number of managed collectibles, collectedCount is
\* the number of them with collected = true, and collectedCount lies
\* between 0 and totalCount.
C39_ManagerCountsMatch ==
    /\ manager.totalCount = Len(collectibles)
    /\ manager.collectedCount =
           Cardinality({i \in 1..Len(collectibles) : collectibles[i].collected})
    /\ manager.collectedCount >= 0
    /\ manager.collectedCount <= manager.totalCount

\* a second collectItem() on a collected collectible has left the count at 1
C39_Witness ==
    /\ call.op = "collectItem" /\ call.rets = << <<1, FALSE>> >>
    /\ collectibles[1].collected
    /\ manager.collectedCount = 1 /\ manager.totalCount >= 1

\* ---- C40 (checked under SpecGame)
\* C40: when a call of Game.init() has run to its end, the event listeners
\* are registered and a frame of the game loop has been requested.
C40_InitStartsTheLoop ==
    [][call'.op = "init" => (game'.listeners /\ game'.frameRequested)]_vars

====
